---- MODULE Spec2Model ----
(***************************************************************************)
(* A model of the Odoo module analyzer: the structural extraction of       *)
(* src/src/parser.py (OdooModuleParser) and the derived reports of         *)
(* src/src/visualizer.py (OdooModuleVisualizer).                           *)
(*                                                                         *)
(* Python values.  A str is a sequence of one-character strings, so that   *)
(* startswith, replace and split are computed character by character.     *)
(* None, True and False are the one-element sequences PyNone, PyTrue and   *)
(* PyFalse, whose element is no character, so no str equals them.  A dict  *)
(* is a function from its keys; a list is a sequence; a set is a set.      *)
(***************************************************************************)
EXTENDS Integers, Sequences, FiniteSets, TLC

VARIABLES
    root,                 \* the module root directory: the files parse_module reads
    pc,                   \* the position of the parser inside parse_module
    idx,                  \* the number of files of the current phase already processed
    models,               \* OdooModuleParser.models
    views,                \* OdooModuleParser.views
    security_rules,       \* OdooModuleParser.security_rules
    menu_items,           \* OdooModuleParser.menu_items
    manifest,             \* OdooModuleParser.manifest
    model_dependencies,   \* OdooModuleParser.model_dependencies
    field_dependencies,   \* OdooModuleParser.field_dependencies
    result,               \* what the last call on the visualizer returned or wrote
    runs,                 \* the number of parse_module runs started on this root
    prev,                 \* the collections as they were when the previous run ended
    edited,               \* the root has changed since the last run ended
    disk                  \* the output files of the display layer that exist

vars == <<root, pc, idx, models, views, security_rules, menu_items, manifest,
          model_dependencies, field_dependencies, result, runs, prev, edited,
          disk>>

-----------------------------------------------------------------------------
(* Bounds of the model *)

\* the number of parse_module runs on one module root
MaxRuns == 2
\* the number of files in models/
MaxFiles == 2
\* the number of rows of security/ir.model.access.csv
MaxRows == 2
\* the number of operands of a boolean expression
MaxOperands == 3

\* the record elements of a rule file or of a view file
MaxRecords == 2

\* the dependency paths of one api.depends decorator
MaxPaths == 2

\* the frames of build_chain the interpreter allows before RecursionError;
\* more than the longest chain of parents without a cycle needs
RecursionLimit == 6

-----------------------------------------------------------------------------
(* Python values and str operations *)

PyNone == <<"None">>
PyTrue == <<"True">>
PyFalse == <<"False">>

\* bool(v) of a str, a list, None, True or False
Truthy(v) == v # PyNone /\ v # PyFalse /\ v # <<>>

PyBool(b) == IF b THEN PyTrue ELSE PyFalse

EmptyDict == <<>>

\* d[k] = v
Put(d, k, v) == (k :> v) @@ d

\* s.startswith(p)
StartsWith(s, p) == Len(s) >= Len(p) /\ SubSeq(s, 1, Len(p)) = p

\* s.replace(old, ''): every non-overlapping occurrence, left to right
RECURSIVE StrRemove(_, _)
StrRemove(s, old) ==
    IF s = <<>> THEN <<>>
    ELSE IF StartsWith(s, old) THEN StrRemove(SubSeq(s, Len(old) + 1, Len(s)), old)
    ELSE <<Head(s)>> \o StrRemove(Tail(s), old)

\* s.split(c)
RECURSIVE Split(_, _)
Split(s, c) ==
    IF \A i \in 1..Len(s) : s[i] # c THEN <<s>>
    ELSE LET i == CHOOSE k \in 1..Len(s) : s[k] = c /\ \A j \in 1..(k - 1) : s[j] # c
         IN  <<SubSeq(s, 1, i - 1)>> \o Split(SubSeq(s, i + 1, Len(s)), c)

\* sub in s
Contains(s, sub) ==
    \E i \in 1..(Len(s) - Len(sub) + 1) : SubSeq(s, i, i + Len(sub) - 1) = sub

\* the elements of a list, as a set
Elems(l) == {l[i] : i \in 1..Len(l)}

\* the sequences over S of length lo..hi
SeqsOf(S, lo, hi) == UNION {[1..n -> S] : n \in lo..hi}

-----------------------------------------------------------------------------
(* The dataclasses of parser.py *)

OdooField(name, field_type, related_model, required, string, default, compute, inverse, store, readonly, index, tracking, help) ==
    [name |-> name, field_type |-> field_type, required |-> required,
     related_model |-> related_model, string |-> string, default |-> default,
     compute |-> compute, store |-> store, readonly |-> readonly,
     inverse |-> inverse, index |-> index, tracking |-> tracking, help |-> help]

\* OdooMethod(name=method_name): the defaults of the dataclass
OdooMethod(name) ==
    [name |-> name, decorators |-> <<>>, parameters |-> <<>>, complexity |-> 0,
     line_count |-> 0, docstring |-> PyNone, api_depends |-> <<>>,
     is_constraint |-> FALSE, is_compute |-> FALSE, is_onchange |-> FALSE]

\* OdooModel(name=name): the defaults of the dataclass
OdooModel(name) ==
    [name |-> name, inherit |-> <<>>, description |-> <<>>, fields |-> EmptyDict,
     methods |-> EmptyDict, order |-> PyNone, record_name |-> PyNone,
     constraints |-> <<>>]

SecurityRule(name, model_id, groups, perm_read, perm_write, perm_create, perm_unlink, domain_force) ==
    [name |-> name, model_id |-> model_id, groups |-> groups,
     perm_read |-> perm_read, perm_write |-> perm_write,
     perm_create |-> perm_create, perm_unlink |-> perm_unlink,
     domain_force |-> domain_force]

-----------------------------------------------------------------------------
(* Syntax trees (the ast module).  Every node is a record with a "node"    *)
(* field naming its class; the other fields are those the parser reads.    *)

\* Expressions
Str(s) == [node |-> "Str", s |-> s]
ListOf(elts) == [node |-> "List", elts |-> elts]
NameConstant(c) == [node |-> "NameConstant", c |-> c]
\* a list display of tuple displays of strs, as _sql_constraints is given
ListOfTuples(tuples) == [node |-> "ListOfTuples", tuples |-> tuples]
Name(id) == [node |-> "Name", id |-> id]
Attribute(value, attr) == [node |-> "Attribute", value |-> value, attr |-> attr]
Keyword(arg, value) == [arg |-> arg, value |-> value]
Call(func, args, keywords) ==
    [node |-> "Call", func |-> func, args |-> args, keywords |-> keywords]

\* Statements of a class body
Assign(targets, value) == [node |-> "Assign", targets |-> targets, value |-> value]
FunctionDef(name, decorator_list, args, docstring, body, lineno, end_lineno) ==
    [node |-> "FunctionDef", name |-> name, decorator_list |-> decorator_list,
     args |-> args, docstring |-> docstring, body |-> body,
     lineno |-> lineno, end_lineno |-> end_lineno]
ClassDef(bases, body) == [node |-> "ClassDef", bases |-> bases, body |-> body]

\* ast.literal_eval(e) returns (a Str, a list of Str, a list of tuples of Str,
\* True, False or None); on any other node it raises ValueError
IsLiteral(e) == e.node \in {"Str", "List", "ListOfTuples", "NameConstant"}

LiteralEval(e) ==
    CASE e.node = "Str" -> e.s
      [] e.node = "List" -> e.elts
      [] e.node = "ListOfTuples" -> e.tuples
      [] e.node = "NameConstant" -> e.c

-----------------------------------------------------------------------------
(* The fixed vocabulary the parser recognizes (spelled as Python strs)      *)

W_name == <<"_", "n", "a", "m", "e">>
W_inherit == <<"_", "i", "n", "h", "e", "r", "i", "t">>
W_description == <<"_", "d", "e", "s", "c", "r", "i", "p", "t", "i", "o", "n">>
W_order == <<"_", "o", "r", "d", "e", "r">>
W_rec_name == <<"_", "r", "e", "c", "_", "n", "a", "m", "e">>
W_sql_constraints ==
    <<"_", "s", "q", "l", "_", "c", "o", "n", "s", "t", "r", "a", "i", "n", "t", "s">>
W_fields == <<"f", "i", "e", "l", "d", "s">>
W_api == <<"a", "p", "i">>
W_models == <<"m", "o", "d", "e", "l", "s">>
W_Model == <<"M", "o", "d", "e", "l">>
W_self == <<"s", "e", "l", "f">>
W_compute_ == <<"_", "c", "o", "m", "p", "u", "t", "e", "_">>
W_inverse_ == <<"_", "i", "n", "v", "e", "r", "s", "e", "_">>
W_search_ == <<"_", "s", "e", "a", "r", "c", "h", "_">>
W_model_ == <<"m", "o", "d", "e", "l", "_">>

W_model_id == <<"m", "o", "d", "e", "l", "_", "i", "d">>
W_domain_force == <<"d", "o", "m", "a", "i", "n", "_", "f", "o", "r", "c", "e">>
W_groups == <<"g", "r", "o", "u", "p", "s">>
W_ir_rule == <<"i", "r", ".", "r", "u", "l", "e">>
W_ir_ui_view == <<"i", "r", ".", "u", "i", ".", "v", "i", "e", "w">>
W_model == <<"m", "o", "d", "e", "l">>
W_type == <<"t", "y", "p", "e">>
W_arch == <<"a", "r", "c", "h">>
W_inherit_id == <<"i", "n", "h", "e", "r", "i", "t", "_", "i", "d">>
W_priority == <<"p", "r", "i", "o", "r", "i", "t", "y">>

\* the relational type tags of _extract_field_info
RelationalTypes == {"Many2one", "One2many", "Many2many"}

-----------------------------------------------------------------------------
(* ModelExtractor *)

\* _is_odoo_model(node)
IsOdooModel(node) ==
    \E i \in 1..Len(node.bases) :
        LET base == node.bases[i] IN
        \/ base.node = "Attribute" /\ base.attr = "Model"
        \/ base.node = "Name" /\ base.id = W_Model

\* len(item.targets) == 1 and isinstance(item.targets[0], ast.Name)
SingleNameTarget(item) == Len(item.targets) = 1 /\ item.targets[1].node = "Name"

\* _get_model_name(node): the first evaluable _name assignment of the body
RECURSIVE GetModelNameFrom(_, _)
GetModelNameFrom(body, i) ==
    IF i > Len(body) THEN PyNone
    ELSE LET item == body[i] IN
         IF /\ item.node = "Assign"
            /\ SingleNameTarget(item)
            /\ item.targets[1].id = W_name
            /\ IsLiteral(item.value)
         THEN LiteralEval(item.value)
         ELSE GetModelNameFrom(body, i + 1)

GetModelName(node) == GetModelNameFrom(node.body, 1)

\* params.get(key, default) for the params bag of _extract_field_info: a keyword
\* whose value literal_eval cannot evaluate is stored as None
ParamsGet(keywords, key, default) ==
    IF \E i \in 1..Len(keywords) : keywords[i].arg = key
    THEN LET i == CHOOSE k \in 1..Len(keywords) :
                      /\ keywords[k].arg = key
                      /\ \A j \in (k + 1)..Len(keywords) : keywords[j].arg # key
         IN  IF IsLiteral(keywords[i].value) THEN LiteralEval(keywords[i].value)
             ELSE PyNone
    ELSE default

\* _extract_field_info(node) returns an OdooField (and not None)
IsFieldDecl(node) ==
    /\ node.node = "Assign"
    /\ Len(node.targets) = 1
    /\ node.targets[1].node = "Name"
    /\ node.value.node = "Call"
    /\ ~StartsWith(node.targets[1].id, <<"_">>)
    /\ node.value.func.node = "Attribute"
    /\ node.value.func.value.node = "Name"
    /\ node.value.func.value.id = W_fields

\* FieldRelatedModel reading the comodel_name keyword, not the first argument
FieldRelatedModelFromKeyword(node) ==
    IF node.value.func.attr \in RelationalTypes
    THEN ParamsGet(node.value.keywords, "comodel_name", PyNone)
    ELSE PyNone

\* the related model of a field declaration
FieldRelatedModel(node) ==
    IF /\ node.value.func.attr \in RelationalTypes
       /\ Len(node.value.args) > 0
       /\ IsLiteral(node.value.args[1])
    THEN LiteralEval(node.value.args[1])
    ELSE PyNone

\* _extract_field_info(node), for a node it returns an OdooField for
ExtractFieldInfo(node) ==
    LET kw == node.value.keywords IN
    OdooField(node.targets[1].id,
              node.value.func.attr,
              FieldRelatedModel(node),
              ParamsGet(kw, "required", PyFalse),
              ParamsGet(kw, "string", PyNone),
              ParamsGet(kw, "default", PyNone),
              ParamsGet(kw, "compute", PyNone),
              ParamsGet(kw, "inverse", PyNone),
              ParamsGet(kw, "store", PyTrue),
              ParamsGet(kw, "readonly", PyFalse),
              ParamsGet(kw, "index", PyFalse),
              ParamsGet(kw, "tracking", PyFalse),
              ParamsGet(kw, "help", PyNone))

\* a constant (None, True, False) held by an attribute the code takes for a
\* list.  The lists of the model hold strs, so the one-element sequence of a
\* constant is no list of the model and stands for the constant itself.
NonList(c) == <<c>>

\* iterating over the value raises TypeError: it is a constant, not a list
NotIterable(v) == Len(v) = 1 /\ v[1] \in {PyNone, PyTrue, PyFalse}

\* the class attributes of _extract_model_info: what one body item assigns
ModelAttribute(model, item) ==
    IF item.node = "Assign"
    THEN IF SingleNameTarget(item) /\ IsLiteral(item.value)
         THEN LET t == item.targets[1].id
                  v == LiteralEval(item.value)
              IN  CASE t = W_name -> [model EXCEPT !.name = v]
                    [] t = W_inherit ->
                         [model EXCEPT !.inherit =
                              CASE item.value.node = "Str" -> <<v>>
                                [] item.value.node = "NameConstant" -> NonList(v)
                                [] OTHER -> v]
                    [] t = W_description -> [model EXCEPT !.description = v]
                    [] t = W_order -> [model EXCEPT !.order = v]
                    [] t = W_rec_name -> [model EXCEPT !.record_name = v]
                    [] OTHER -> model
         ELSE model
    \* the elif of line 202 tests isinstance(item, ast.Assign) again: it is
    \* taken only by an item that is not an Assign and is an Assign
    ELSE IF item.node = "Assign"
         THEN IF /\ SingleNameTarget(item)
                 /\ item.targets[1].id = W_sql_constraints
                 /\ item.value.node = "ListOfTuples"
              THEN [model EXCEPT !.constraints =
                        [k \in 1..Len(item.value.tuples) |-> item.value.tuples[k][1]]]
              ELSE model
         ELSE model

\* _extract_model_info(node): the body items in order
RECURSIVE ExtractModelInfoFrom(_, _, _)
ExtractModelInfoFrom(body, i, model) ==
    IF i > Len(body) THEN model
    ELSE LET item == body[i]
             m1 == ModelAttribute(model, item)
             m2 == IF IsFieldDecl(item)
                   THEN [m1 EXCEPT !.fields =
                             Put(@, item.targets[1].id, ExtractFieldInfo(item))]
                   ELSE m1
         IN  ExtractModelInfoFrom(body, i + 1, m2)

ExtractModelInfo(node) == ExtractModelInfoFrom(node.body, 1, OdooModel(<<>>))

-----------------------------------------------------------------------------
(* Method bodies.  A statement or expression node of a method body is      *)
(* [node, kids], kids being its child nodes in the order ast.walk yields   *)
(* them; a boolean expression is [node |-> "BoolOp", op, values].          *)

Stmt(node, kids) == [node |-> node, kids |-> kids]
BoolOp(op, values) == [node |-> "BoolOp", op |-> op, values |-> values]

\* ast.iter_child_nodes(n)
ChildNodes(n) == IF n.node = "BoolOp" THEN n.values ELSE n.kids

\* NodeComplexity adding one for a boolean expression, whatever its operands
NodeComplexityOnePerBoolOp(n) ==
    IF n.node \in {"If", "While", "For", "BoolOp"} THEN 1 ELSE 0

\* what one node visited by ast.walk adds to the complexity
NodeComplexity(n) ==
    IF n.node \in {"If", "While", "For"} THEN 1
    ELSE IF n.node = "BoolOp" /\ n.op \in {"And", "Or"} THEN Len(n.values) - 1
    ELSE 0

\* the sum of NodeComplexity over every node ast.walk visits from the nodes ns
RECURSIVE WalkComplexity(_)
WalkComplexity(ns) ==
    IF ns = <<>> THEN 0
    ELSE NodeComplexity(Head(ns))
         + WalkComplexity(ChildNodes(Head(ns)))
         + WalkComplexity(Tail(ns))

\* _compute_cyclomatic_complexity(node) of a FunctionDef
ComputeCyclomaticComplexity(fn) == 1 + WalkComplexity(fn.body)

\* the decorator makes _extract_methods raise AttributeError: decorator.func.value
\* is read for its id, which only a Name has
DecoratorRaises(d) ==
    d.node = "Call" /\ d.func.node = "Attribute" /\ d.func.value.node # "Name"

\* the decorator is api.<attr>(...)
IsApiCall(d) ==
    /\ d.node = "Call"
    /\ d.func.node = "Attribute"
    /\ d.func.value.node = "Name"
    /\ d.func.value.id = W_api

\* the str arguments of a decorator call, in order
RECURSIVE StrArgs(_)
StrArgs(args) ==
    IF args = <<>> THEN <<>>
    ELSE (IF Head(args).node = "Str" THEN <<Head(args).s>> ELSE <<>>)
         \o StrArgs(Tail(args))

\* the decorator loop of _extract_methods, for decorators none of which raises
RECURSIVE ApplyDecorators(_, _)
ApplyDecorators(method, ds) ==
    IF ds = <<>> THEN method
    ELSE LET d == Head(ds)
             m1 == IF IsApiCall(d)
                   THEN LET tagged == [method EXCEPT
                                !.decorators = Append(@, <<"@api.", d.func.attr>>)]
                        IN  CASE d.func.attr = "depends" ->
                                   [tagged EXCEPT !.is_compute = TRUE,
                                                  !.api_depends = @ \o StrArgs(d.args)]
                              [] d.func.attr = "constrains" ->
                                   [tagged EXCEPT !.is_constraint = TRUE]
                              [] d.func.attr = "onchange" ->
                                   [tagged EXCEPT !.is_onchange = TRUE]
                              [] OTHER -> tagged
                   ELSE method
         IN  ApplyDecorators(m1, Tail(ds))

\* the private-method test of _extract_methods: the method is skipped
IsSkippedMethod(method_name) ==
    /\ StartsWith(method_name, <<"_">>)
    /\ method_name \notin {W_compute_, W_inverse_, W_search_}

\* [arg.arg for arg in item.args.args if arg.arg != 'self']
RECURSIVE Parameters(_)
Parameters(args) ==
    IF args = <<>> THEN <<>>
    ELSE (IF Head(args) # W_self THEN <<Head(args)>> ELSE <<>>) \o Parameters(Tail(args))

\* the OdooMethod _extract_methods builds for a function none of whose
\* decorators raises
ExtractMethod(item) ==
    LET m1 == ApplyDecorators(OdooMethod(item.name), item.decorator_list)
    IN  [m1 EXCEPT !.parameters = Parameters(item.args),
                   !.docstring = IF Truthy(item.docstring) THEN item.docstring ELSE PyNone,
                   !.complexity = ComputeCyclomaticComplexity(item),
                   !.line_count = item.end_lineno - item.lineno]

\* _extract_methods(node, model) from body item i on: the model as it is when the
\* loop ends or raises, and whether it raised
RECURSIVE ExtractMethodsFrom(_, _, _)
ExtractMethodsFrom(body, i, model) ==
    IF i > Len(body) THEN [model |-> model, exc |-> FALSE]
    ELSE LET item == body[i] IN
         IF item.node # "FunctionDef" \/ IsSkippedMethod(item.name)
         THEN ExtractMethodsFrom(body, i + 1, model)
         ELSE IF \E k \in 1..Len(item.decorator_list) :
                     DecoratorRaises(item.decorator_list[k])
         THEN [model |-> model, exc |-> TRUE]
         ELSE ExtractMethodsFrom(body, i + 1,
                  [model EXCEPT !.methods = Put(@, item.name, ExtractMethod(item))])

ExtractMethods(node, model) == ExtractMethodsFrom(node.body, 1, model)

\* FirstPass merging a declaration into the record its name already has: the
\* parents appended, the fields added
RECURSIVE FirstPassMerging(_, _, _)
FirstPassMerging(classes, i, ms) ==
    IF i > Len(classes) THEN ms
    ELSE LET node == classes[i]
             model == ExtractModelInfo(node)
         IN  FirstPassMerging(classes, i + 1,
                 IF IsOdooModel(node) /\ Truthy(model.name)
                 THEN IF model.name \in DOMAIN ms
                      THEN Put(ms, model.name,
                               [model EXCEPT !.inherit = ms[model.name].inherit \o @,
                                             !.fields = @ @@ ms[model.name].fields])
                      ELSE Put(ms, model.name, model)
                 ELSE ms)

\* the first pass of _parse_model_file over the classes ast.walk yields
RECURSIVE FirstPass(_, _, _)
FirstPass(classes, i, ms) ==
    IF i > Len(classes) THEN ms
    ELSE LET node == classes[i]
             model == ExtractModelInfo(node)
         IN  FirstPass(classes, i + 1,
                 IF IsOdooModel(node) /\ Truthy(model.name)
                 THEN Put(ms, model.name, model)
                 ELSE ms)

\* the second pass of _parse_model_file: it stops at the first exception
RECURSIVE SecondPass(_, _, _)
SecondPass(classes, i, ms) ==
    IF i > Len(classes) THEN ms
    ELSE LET node == classes[i]
             model_name == GetModelName(node)
         IN  IF IsOdooModel(node) /\ model_name \in DOMAIN ms
             THEN LET r == ExtractMethods(node, ms[model_name])
                      ms1 == Put(ms, model_name, r.model)
                  IN  IF r.exc THEN ms1 ELSE SecondPass(classes, i + 1, ms1)
             ELSE SecondPass(classes, i + 1, ms)

\* _parse_model_file(file_path): self.models after the call.  A file that is
\* not valid syntax makes ast.parse raise before anything is stored.
ParseModelFile(file, ms) ==
    IF ~file.syntax_ok THEN ms
    ELSE SecondPass(file.classes, 1, FirstPass(file.classes, 1, ms))

\* _parse_model_file(file_path) ends in its except clause: ast.parse raised,
\* or _extract_methods did in the second pass
RECURSIVE SecondPassRaises(_, _, _)
SecondPassRaises(classes, i, ms) ==
    IF i > Len(classes) THEN FALSE
    ELSE LET node == classes[i]
             model_name == GetModelName(node)
         IN  IF IsOdooModel(node) /\ model_name \in DOMAIN ms
             THEN LET r == ExtractMethods(node, ms[model_name])
                  IN  r.exc \/ SecondPassRaises(classes, i + 1, Put(ms, model_name, r.model))
             ELSE SecondPassRaises(classes, i + 1, ms)

ParseModelFileRaises(file, ms) ==
    \/ ~file.syntax_ok
    \/ SecondPassRaises(file.classes, 1, FirstPass(file.classes, 1, ms))

-----------------------------------------------------------------------------
(* Markup (xml.etree.ElementTree).  An element is [tag, attrib, text,      *)
(* children]; attrib is a function from attribute names to strs.           *)

Element(tag, attrib, text, children) ==
    [tag |-> tag, attrib |-> attrib, text |-> text, children |-> children]

\* element.get(key, default)
AttrGet(e, key, default) == IF key \in DOMAIN e.attrib THEN e.attrib[key] ELSE default

\* the elements below (not including) the given roots that carry the tag, in
\* document order: element.findall(".//tag")
RECURSIVE FindAllIn(_, _)
FindAllIn(children, tag) ==
    IF children = <<>> THEN <<>>
    ELSE (IF Head(children).tag = tag THEN <<Head(children)>> ELSE <<>>)
         \o FindAllIn(Head(children).children, tag)
         \o FindAllIn(Tail(children), tag)

FindAll(e, tag) == FindAllIn(e.children, tag)

Digits == {"0", "1", "2", "3", "4", "5", "6", "7", "8", "9"}

DigitValue(c) ==
    CASE c = "0" -> 0 [] c = "1" -> 1 [] c = "2" -> 2 [] c = "3" -> 3 [] c = "4" -> 4
      [] c = "5" -> 5 [] c = "6" -> 6 [] c = "7" -> 7 [] c = "8" -> 8 [] c = "9" -> 9

\* int(s) succeeds (for the strs of the model: a non-empty run of digits);
\* int(None) raises TypeError and int of any other str raises ValueError
IntParses(s) == s # PyNone /\ s # <<>> /\ \A i \in 1..Len(s) : s[i] \in Digits

RECURSIVE IntOf(_)
IntOf(s) == IF s = <<>> THEN 0 ELSE 10 * IntOf(SubSeq(s, 1, Len(s) - 1)) + DigitValue(s[Len(s)])

-----------------------------------------------------------------------------
(* SecurityExtractor *)

\* row.get(key, default) of a csv.DictReader row
RowGet(row, key, default) == IF key \in DOMAIN row THEN row[key] ELSE default

\* the SecurityRule _parse_access_file builds from one row
AccessRule(row) ==
    SecurityRule(RowGet(row, "id", <<>>),
                 StrRemove(RowGet(row, "model_id:id", <<>>), W_model_),
                 <<RowGet(row, "group_id:id", <<>>)>>,
                 RowGet(row, "perm_read", <<"0">>) = <<"1">>,
                 RowGet(row, "perm_write", <<"0">>) = <<"1">>,
                 RowGet(row, "perm_create", <<"0">>) = <<"1">>,
                 RowGet(row, "perm_unlink", <<"0">>) = <<"1">>,
                 PyNone)

\* _parse_access_file(file_path): self.security_rules after the rows from i on
RECURSIVE ParseAccessRows(_, _, _)
ParseAccessRows(rows, i, rules) ==
    IF i > Len(rows) THEN rules
    ELSE LET rule == AccessRule(rows[i])
         IN  ParseAccessRows(rows, i + 1, Put(rules, rule.name, rule))

ParseAccessFile(file, rules) == ParseAccessRows(file.rows, 1, rules)

\* the refs of the field elements below a groups field, those without a ref
\* left out
RECURSIVE GroupRefs(_)
GroupRefs(gs) ==
    IF gs = <<>> THEN <<>>
    ELSE (IF Truthy(AttrGet(Head(gs), "ref", PyNone))
          THEN <<AttrGet(Head(gs), "ref", PyNone)>> ELSE <<>>)
         \o GroupRefs(Tail(gs))

\* RuleFields taking the ref of every field element of the record for a group
RECURSIVE RuleFieldsEveryRefAGroup(_, _)
RuleFieldsEveryRefAGroup(fs, acc) ==
    IF fs = <<>> THEN acc
    ELSE LET f == Head(fs)
             name_attr == AttrGet(f, "name", PyNone)
             ref == AttrGet(f, "ref", PyNone)
             a0 == IF Truthy(ref) THEN [acc EXCEPT !.groups = @ \o <<ref>>] ELSE acc
             a1 == CASE name_attr = W_model_id ->
                          IF Truthy(ref)
                          THEN [a0 EXCEPT !.model_id = StrRemove(ref, W_model_)]
                          ELSE a0
                     [] name_attr = W_domain_force ->
                          [a0 EXCEPT !.domain_force = f.text]
                     [] OTHER -> a0
         IN  RuleFieldsEveryRefAGroup(Tail(fs), a1)

\* the field loop of _parse_rule_file over the field elements of one record
RECURSIVE RuleFields(_, _)
RuleFields(fs, acc) ==
    IF fs = <<>> THEN acc
    ELSE LET f == Head(fs)
             name_attr == AttrGet(f, "name", PyNone)
             ref == AttrGet(f, "ref", PyNone)
             a1 == CASE name_attr = W_model_id ->
                          IF Truthy(ref)
                          THEN [acc EXCEPT !.model_id = StrRemove(ref, W_model_)]
                          ELSE acc
                     [] name_attr = W_domain_force ->
                          [acc EXCEPT !.domain_force = f.text]
                     [] name_attr = W_groups ->
                          [acc EXCEPT !.groups = @ \o GroupRefs(FindAll(f, "field"))]
                     [] OTHER -> acc
         IN  RuleFields(Tail(fs), a1)

\* _parse_rule_file: the record elements with model="ir.rule", in order
RECURSIVE ParseRuleRecords(_, _)
ParseRuleRecords(records, rules) ==
    IF records = <<>> THEN rules
    ELSE LET record == Head(records)
             id_attr == AttrGet(record, "id", <<>>)
             got == RuleFields(FindAll(record, "field"),
                               [model_id |-> PyNone, domain_force |-> PyNone,
                                groups |-> <<>>])
             r1 == IF AttrGet(record, "model", PyNone) = W_ir_rule
                      /\ Truthy(got.model_id)
                   THEN Put(rules, id_attr,
                            SecurityRule(id_attr, got.model_id, got.groups,
                                         TRUE, TRUE, TRUE, TRUE, got.domain_force))
                   ELSE rules
         IN  ParseRuleRecords(Tail(records), r1)

\* _parse_rule_file(file_path): markup that is not well formed makes
\* ET.fromstring raise before any rule is stored
ParseRuleFile(file, rules) ==
    IF ~file.wellformed THEN rules
    ELSE ParseRuleRecords(FindAllIn(file.elements, "record"), rules)

RECURSIVE ParseRuleFiles(_, _)
ParseRuleFiles(files, rules) ==
    IF files = <<>> THEN rules
    ELSE ParseRuleFiles(Tail(files), ParseRuleFile(Head(files), rules))

\* ParseSecurity reading the rule files first, the access file second
ParseSecurityRuleFilesFirst(security, rules) ==
    IF ~security.exists THEN rules
    ELSE LET rs == ParseRuleFiles(security.rule_files, rules)
         IN  IF security.access.exists THEN ParseAccessFile(security.access, rs)
             ELSE rs

\* _parse_security(): the access file first, the rule files second
ParseSecurity(security, rules) ==
    IF ~security.exists THEN rules
    ELSE ParseRuleFiles(security.rule_files,
             IF security.access.exists THEN ParseAccessFile(security.access, rules)
             ELSE rules)

-----------------------------------------------------------------------------
(* ViewExtractor *)

OdooView(name, model, type, arch, inherit_id, priority, field_names) ==
    [name |-> name, model |-> model, type |-> type, arch |-> arch,
     inherit_id |-> inherit_id, priority |-> priority, field_names |-> field_names]

\* _extract_field_names_from_arch(arch_node)
RECURSIVE NamesOf(_)
NamesOf(fs) ==
    IF fs = <<>> THEN <<>>
    ELSE (IF Truthy(AttrGet(Head(fs), "name", PyNone))
          THEN <<AttrGet(Head(fs), "name", PyNone)>> ELSE <<>>)
         \o NamesOf(Tail(fs))

ExtractFieldNamesFromArch(arch_node) == NamesOf(FindAll(arch_node, "field"))

\* the field loop of _parse_view_file over the field elements of one record;
\* arch is the element ET.tostring serializes, or None
RECURSIVE ViewFields(_, _)
ViewFields(fs, acc) ==
    IF fs = <<>> THEN acc
    ELSE LET f == Head(fs)
             name_attr == AttrGet(f, "name", PyNone)
             a1 == CASE name_attr = W_model -> [acc EXCEPT !.model = f.text]
                     [] name_attr = W_type -> [acc EXCEPT !.type = f.text]
                     [] name_attr = W_arch ->
                          [acc EXCEPT !.has_arch = TRUE, !.arch = <<f>>,
                                      !.field_names = ExtractFieldNamesFromArch(f)]
                     [] name_attr = W_inherit_id ->
                          [acc EXCEPT !.inherit_id = AttrGet(f, "ref", PyNone)]
                     [] name_attr = W_priority ->
                          IF IntParses(f.text)
                          THEN [acc EXCEPT !.priority = IntOf(f.text)]
                          ELSE acc
                     [] OTHER -> acc
         IN  ViewFields(Tail(fs), a1)

DefaultPriority == 16

\* the record loop of _parse_view_file committing a view without looking at
\* its type
RECURSIVE ParseViewRecordsIgnoringType(_, _)
ParseViewRecordsIgnoringType(records, vs) ==
    IF records = <<>> THEN vs
    ELSE LET record == Head(records)
             id_attr == AttrGet(record, "id", PyNone)
             got == ViewFields(FindAll(record, "field"),
                               [model |-> PyNone, type |-> PyNone, has_arch |-> FALSE,
                                arch |-> <<>>, inherit_id |-> PyNone,
                                priority |-> DefaultPriority, field_names |-> <<>>])
             v1 == IF /\ AttrGet(record, "model", PyNone) = W_ir_ui_view
                      /\ Truthy(id_attr)
                      /\ Truthy(got.model) /\ got.has_arch
                   THEN Put(vs, id_attr,
                            OdooView(id_attr, got.model, got.type, got.arch,
                                     got.inherit_id, got.priority, got.field_names))
                   ELSE vs
         IN  ParseViewRecordsIgnoringType(Tail(records), v1)

\* the record loop of _parse_view_file
RECURSIVE ParseViewRecords(_, _)
ParseViewRecords(records, vs) ==
    IF records = <<>> THEN vs
    ELSE LET record == Head(records)
             id_attr == AttrGet(record, "id", PyNone)
             got == ViewFields(FindAll(record, "field"),
                               [model |-> PyNone, type |-> PyNone, has_arch |-> FALSE,
                                arch |-> <<>>, inherit_id |-> PyNone,
                                priority |-> DefaultPriority, field_names |-> <<>>])
             v1 == IF /\ AttrGet(record, "model", PyNone) = W_ir_ui_view
                      /\ Truthy(id_attr)
                      /\ Truthy(got.model) /\ Truthy(got.type) /\ got.has_arch
                   THEN Put(vs, id_attr,
                            OdooView(id_attr, got.model, got.type, got.arch,
                                     got.inherit_id, got.priority, got.field_names))
                   ELSE vs
         IN  ParseViewRecords(Tail(records), v1)

\* _parse_view_file(file_path)
ParseViewFile(file, vs) ==
    IF ~file.wellformed THEN vs
    ELSE ParseViewRecords(FindAllIn(file.elements, "record"), vs)

\* _parse_views()
RECURSIVE ParseViewFiles(_, _)
ParseViewFiles(files, vs) ==
    IF files = <<>> THEN vs
    ELSE ParseViewFiles(Tail(files), ParseViewFile(Head(files), vs))

-----------------------------------------------------------------------------
(* MenuExtractor *)

OdooMenuItem(id, name, parent_id, action, sequence, groups) ==
    [id |-> id, name |-> name, parent_id |-> parent_id, action |-> action,
     sequence |-> sequence, groups |-> groups]

DefaultSequence == 10

\* the menuitem loop of _parse_menu_file
RECURSIVE ParseMenuItems(_, _)
ParseMenuItems(items, menus) ==
    IF items = <<>> THEN menus
    ELSE LET menuitem == Head(items)
             id_attr == AttrGet(menuitem, "id", <<>>)
             seq_attr == AttrGet(menuitem, "sequence", <<"1", "0">>)
             groups_attr == AttrGet(menuitem, "groups", <<>>)
             menu == OdooMenuItem(id_attr,
                                  AttrGet(menuitem, "name", <<>>),
                                  AttrGet(menuitem, "parent", PyNone),
                                  AttrGet(menuitem, "action", PyNone),
                                  IF IntParses(seq_attr) THEN IntOf(seq_attr)
                                  ELSE DefaultSequence,
                                  IF Truthy(groups_attr) THEN Split(groups_attr, ",")
                                  ELSE <<>>)
         IN  ParseMenuItems(Tail(items), Put(menus, id_attr, menu))

\* _parse_menus(): every file of views/
RECURSIVE ParseMenuFiles(_, _)
ParseMenuFiles(files, menus) ==
    IF files = <<>> THEN menus
    ELSE ParseMenuFiles(Tail(files),
             IF ~Head(files).wellformed THEN menus
             ELSE ParseMenuItems(FindAllIn(Head(files).elements, "menuitem"), menus))

-----------------------------------------------------------------------------
(* DependencyAnalyzer *)

\* the relational-field loop of _analyze_dependencies: the fields of the model
\* whose related_model is truthy
RelatedFields(model) ==
    {f \in DOMAIN model.fields : Truthy(model.fields[f].related_model)}

\* ModelDependenciesOf keeping only the related models that were extracted
ModelDependenciesOfExtractedTargets(ms, model_name) ==
    Elems(ms[model_name].inherit)
    \cup {ms[model_name].fields[f].related_model :
              f \in {g \in RelatedFields(ms[model_name]) :
                         ms[model_name].fields[g].related_model \in DOMAIN ms}}

\* ModelDependenciesOf keeping only the parents that were extracted
ModelDependenciesOfExtractedParents(ms, model_name) ==
    (Elems(ms[model_name].inherit) \cap DOMAIN ms)
    \cup {ms[model_name].fields[f].related_model : f \in RelatedFields(ms[model_name])}

\* ModelDependenciesOf holding the parents only
ModelDependenciesOfParentsOnly(ms, model_name) == Elems(ms[model_name].inherit)

\* model_dependencies[model_name] after the loop body for one model
ModelDependenciesOf(ms, model_name) ==
    Elems(ms[model_name].inherit)
    \cup {ms[model_name].fields[f].related_model : f \in RelatedFields(ms[model_name])}

\* ms.get(current_model, OdooModel(name="")).fields
FieldsOf(ms, current_model) ==
    IF current_model \in DOMAIN ms THEN ms[current_model].fields ELSE EmptyDict

\* WalkPath adding a pair for every segment that resolves, not only the first
RECURSIVE WalkPathEverySegment(_, _, _, _, _, _)
WalkPathEverySegment(ms, model_name, method_name, prefix, i, current_model) ==
    IF i >= Len(prefix) THEN {}
    ELSE LET part == prefix[i + 1]
             fs == FieldsOf(ms, current_model)
         IN  IF part \in DOMAIN fs /\ Truthy(fs[part].related_model)
             THEN {<<method_name, fs[part].related_model>>}
                  \cup WalkPathEverySegment(ms, model_name, method_name, prefix, i + 1,
                                            fs[part].related_model)
             ELSE WalkPathEverySegment(ms, model_name, method_name, prefix, i + 1,
                                       current_model)

\* the walk of one dependency path of a compute method: parts[:-1] from
\* position i on (counted from 0, as enumerate does); the pairs it adds
RECURSIVE WalkPath(_, _, _, _, _, _)
WalkPath(ms, model_name, method_name, prefix, i, current_model) ==
    IF i >= Len(prefix) THEN {}
    ELSE LET part == prefix[i + 1]
             fs == FieldsOf(ms, current_model)
         IN  IF part \in DOMAIN fs /\ Truthy(fs[part].related_model)
             THEN (IF i = 0 THEN {<<method_name, fs[part].related_model>>} ELSE {})
                  \cup WalkPath(ms, model_name, method_name, prefix, i + 1,
                                fs[part].related_model)
             ELSE WalkPath(ms, model_name, method_name, prefix, i + 1, current_model)

\* the pairs the compute-dependency loop adds for one method
ComputePairs(ms, model_name, method_name) ==
    LET method == ms[model_name].methods[method_name] IN
    IF method.is_compute /\ method.api_depends # <<>>
    THEN UNION {LET parts == Split(method.api_depends[k], ".")
                IN  IF Len(parts) > 1
                    THEN WalkPath(ms, model_name, method_name,
                                  SubSeq(parts, 1, Len(parts) - 1), 0, model_name)
                    ELSE {}
                : k \in 1..Len(method.api_depends)}
    ELSE {}

\* field_dependencies[model_name] after the loop body for one model
FieldDependenciesOf(ms, model_name) ==
    {<<f, ms[model_name].fields[f].related_model>> : f \in RelatedFields(ms[model_name])}
    \cup UNION {ComputePairs(ms, model_name, m) : m \in DOMAIN ms[model_name].methods}

\* AnalyzeModelDependencies adding to the set a key already has
AnalyzeModelDependenciesKeepingOld(ms, md) ==
    [n \in DOMAIN ms \cup DOMAIN md |->
        (IF n \in DOMAIN ms THEN ModelDependenciesOf(ms, n) ELSE {})
        \cup (IF n \in DOMAIN md THEN md[n] ELSE {})]

\* _analyze_dependencies(): the two maps after the call.  The entry of each
\* model of self.models is assigned a new set; no other key is touched.
AnalyzeModelDependencies(ms, md) ==
    [n \in DOMAIN ms \cup DOMAIN md |->
        IF n \in DOMAIN ms THEN ModelDependenciesOf(ms, n) ELSE md[n]]

AnalyzeFieldDependencies(ms, fd) ==
    [n \in DOMAIN ms \cup DOMAIN fd |->
        IF n \in DOMAIN ms THEN FieldDependenciesOf(ms, n) ELSE fd[n]]

-----------------------------------------------------------------------------
(* OdooModuleVisualizer *)

\* the keys of a dict in iteration order.  The model keeps no insertion order:
\* the order chosen here stands for it.
RECURSIVE KeyList(_)
KeyList(S) ==
    IF S = {} THEN <<>>
    ELSE LET k == CHOOSE x \in S : TRUE IN <<k>> \o KeyList(S \ {k})

\* _analyze_dependencies() raises: the parents of some model cannot be
\* iterated over
AnalyzeRaises(ms) == \E n \in DOMAIN ms : NotIterable(ms[n].inherit)

\* the models the loop of _analyze_dependencies has dealt with when it
\* reaches, in the order of the names, the first whose parents it cannot
\* iterate over
RECURSIVE AnalyzedBeforeRaise(_, _)
AnalyzedBeforeRaise(ms, names) ==
    IF names = <<>> \/ NotIterable(ms[Head(names)].inherit) THEN {}
    ELSE {Head(names)} \cup AnalyzedBeforeRaise(ms, Tail(names))

\* the model at which the loop raises: its two entries have been assigned
\* empty sets
RECURSIVE RaisingModel(_, _)
RaisingModel(ms, names) ==
    IF NotIterable(ms[Head(names)].inherit) THEN Head(names)
    ELSE RaisingModel(ms, Tail(names))

\* the two maps as _analyze_dependencies leaves them when it raises
InterruptedModelDependencies(ms, md) ==
    LET names == KeyList(DOMAIN ms)
        analyzed == AnalyzedBeforeRaise(ms, names)
    IN  [n \in DOMAIN md \cup analyzed \cup {RaisingModel(ms, names)} |->
            IF n \in analyzed THEN ModelDependenciesOf(ms, n)
            ELSE IF n = RaisingModel(ms, names) THEN {}
            ELSE md[n]]

InterruptedFieldDependencies(ms, fd) ==
    LET names == KeyList(DOMAIN ms)
        analyzed == AnalyzedBeforeRaise(ms, names)
    IN  [n \in DOMAIN fd \cup analyzed \cup {RaisingModel(ms, names)} |->
            IF n \in analyzed THEN FieldDependenciesOf(ms, n)
            ELSE IF n = RaisingModel(ms, names) THEN {}
            ELSE fd[n]]

\* InheritEdges drawing an edge to the first parent only
InheritEdgesFirstParent(model_name, inherit) ==
    IF inherit = <<>> THEN <<>>
    ELSE <<[from |-> model_name, to |-> Head(inherit), type |-> "inherits",
            label |-> "inherits", field |-> PyNone]>>

\* the inheritance edges of generate_relationship_graph for one model
RECURSIVE InheritEdges(_, _)
InheritEdges(model_name, inherit) ==
    IF inherit = <<>> THEN <<>>
    ELSE <<[from |-> model_name, to |-> Head(inherit), type |-> "inherits",
            label |-> "inherits", field |-> PyNone]>>
         \o InheritEdges(model_name, Tail(inherit))

\* FieldEdges drawing one edge for every field, related or not
RECURSIVE FieldEdgesOfEveryField(_, _, _)
FieldEdgesOfEveryField(model_name, model, names) ==
    IF names = <<>> THEN <<>>
    ELSE LET f == model.fields[Head(names)] IN
         <<[from |-> model_name, to |-> f.related_model, type |-> f.field_type,
            label |-> f.field_type, field |-> Head(names)]>>
         \o FieldEdgesOfEveryField(model_name, model, Tail(names))

\* the field relationship edges of generate_relationship_graph for one model
RECURSIVE FieldEdges(_, _, _)
FieldEdges(model_name, model, names) ==
    IF names = <<>> THEN <<>>
    ELSE LET f == model.fields[Head(names)] IN
         (IF Truthy(f.related_model)
          THEN <<[from |-> model_name, to |-> f.related_model, type |-> f.field_type,
                  label |-> f.field_type, field |-> Head(names)]>>
          ELSE <<>>)
         \o FieldEdges(model_name, model, Tail(names))

GraphNode(model_name, model) ==
    [id |-> model_name, label |-> model_name, type |-> "model",
     fields |-> Cardinality(DOMAIN model.fields),
     methods |-> Cardinality(DOMAIN model.methods),
     description |-> model.description]

RECURSIVE GraphFrom(_, _)
GraphFrom(ms, names) ==
    IF names = <<>> THEN [nodes |-> <<>>, edges |-> <<>>]
    ELSE LET n == Head(names)
             rest == GraphFrom(ms, Tail(names))
         IN  [nodes |-> <<GraphNode(n, ms[n])>> \o rest.nodes,
              edges |-> InheritEdges(n, ms[n].inherit)
                        \o FieldEdges(n, ms[n], KeyList(DOMAIN ms[n].fields))
                        \o rest.edges]

\* generate_relationship_graph()
GenerateRelationshipGraph(ms) == GraphFrom(ms, KeyList(DOMAIN ms))

\* some chain of the list holds the name: any(model_name in chain for chain in chains)
InSomeChain(chains, model_name) ==
    \E i \in 1..Len(chains) : \E k \in 1..Len(chains[i]) : chains[i][k] = model_name

\* build_chain(model_name, chain) at the given depth of recursion: whether it
\* raises RecursionError, and the chains it appends to the list, in order.
\* The callee appends the name to the list it is given, so the caller's
\* new_chain ends with the parent when the call returns, and is appended
\* once more.
RECURSIVE BuildChain(_, _, _, _)
RECURSIVE BuildChainParents(_, _, _, _)
BuildChain(ms, model_name, chain, depth) ==
    IF depth > RecursionLimit THEN [raised |-> TRUE, chains |-> <<>>]
    ELSE LET chain1 == Append(chain, model_name) IN
         IF model_name \in DOMAIN ms /\ Truthy(ms[model_name].inherit)
         THEN BuildChainParents(ms, chain1, ms[model_name].inherit, depth)
         ELSE [raised |-> FALSE, chains |-> <<chain1>>]

\* the loop of build_chain over the parents of a model
BuildChainParents(ms, chain, parents, depth) ==
    IF parents = <<>> THEN [raised |-> FALSE, chains |-> <<>>]
    ELSE LET parent == Head(parents)
             first == IF parent \in DOMAIN ms
                      THEN LET below == BuildChain(ms, parent, chain, depth + 1)
                           IN  [raised |-> below.raised,
                                chains |-> below.chains \o <<Append(chain, parent)>>]
                      ELSE [raised |-> FALSE, chains |-> <<Append(chain, parent)>>]
         IN  IF first.raised THEN [raised |-> TRUE, chains |-> <<>>]
             ELSE LET rest == BuildChainParents(ms, chain, Tail(parents), depth)
                  IN  [raised |-> rest.raised, chains |-> first.chains \o rest.chains]

\* the loop of _get_inheritance_chains over the models: a model some chain
\* already holds starts no chain
RECURSIVE InheritanceChainsFrom(_, _, _)
InheritanceChainsFrom(ms, names, chains) ==
    IF names = <<>> THEN [raised |-> "none", chains |-> chains]
    ELSE IF InSomeChain(chains, Head(names))
    THEN InheritanceChainsFrom(ms, Tail(names), chains)
    ELSE LET built == BuildChain(ms, Head(names), <<>>, 1)
         IN  IF built.raised THEN [raised |-> "RecursionError", chains |-> <<>>]
             ELSE InheritanceChainsFrom(ms, Tail(names), chains \o built.chains)

\* _get_inheritance_chains()
GetInheritanceChains(ms) == InheritanceChainsFrom(ms, KeyList(DOMAIN ms), <<>>)

\* round(n / t * 100, 2), in hundredths of a percent (no n / t * 100 of the
\* model lies half way between two hundredths)
RoundedPercentage(n, t) == (n * 20000 + t) \div (2 * t)

\* GetSecurityCoverage counting the rules of extracted models, not the models
GetSecurityCoverageCountingRules(ms, rules) ==
    LET total_models == Cardinality(DOMAIN ms)
        covering == {k \in DOMAIN rules : rules[k].model_id \in DOMAIN ms}
    IN  [models_with_rules |-> Cardinality(covering),
         coverage_percentage |->
             IF total_models > 0
             THEN RoundedPercentage(Cardinality(covering), total_models)
             ELSE 0,
         models_missing_rules |->
             DOMAIN ms \ {rules[k].model_id : k \in covering}]

\* _get_security_coverage()
GetSecurityCoverage(ms, rules) ==
    LET total_models == Cardinality(DOMAIN ms)
        models_with_rules ==
            {rules[r].model_id : r \in {k \in DOMAIN rules : rules[k].model_id \in DOMAIN ms}}
    IN  [models_with_rules |-> Cardinality(models_with_rules),
         coverage_percentage |->
             IF total_models > 0
             THEN RoundedPercentage(Cardinality(models_with_rules), total_models)
             ELSE 0,
         models_missing_rules |-> DOMAIN ms \ models_with_rules]

\* json.dump can encode the value of module_data['models'][model_name]['methods']:
\* a dict of OdooMethod objects is encoded only when it is empty
JsonEncodable(model) == DOMAIN model.methods = {}

\* the module_data of export_module_data
ModuleData(ms, rules, vs) ==
    [models |-> [n \in DOMAIN ms |->
                    [name |-> ms[n].name,
                     description |-> ms[n].description,
                     inherit |-> ms[n].inherit,
                     fields |-> [f \in DOMAIN ms[n].fields |->
                                    [type |-> ms[n].fields[f].field_type,
                                     required |-> ms[n].fields[f].required,
                                     related_model |-> ms[n].fields[f].related_model,
                                     compute |-> ms[n].fields[f].compute,
                                     store |-> ms[n].fields[f].store,
                                     readonly |-> ms[n].fields[f].readonly]],
                     methods |-> ms[n].methods]],
     security_rules |-> [r \in DOMAIN rules |->
                            [model_id |-> rules[r].model_id,
                             groups |-> rules[r].groups,
                             perm_read |-> rules[r].perm_read,
                             perm_write |-> rules[r].perm_write,
                             perm_create |-> rules[r].perm_create,
                             perm_unlink |-> rules[r].perm_unlink]],
     views |-> [v \in DOMAIN vs |->
                   [model |-> vs[v].model, type |-> vs[v].type,
                    inherit_id |-> vs[v].inherit_id, priority |-> vs[v].priority]]]

\* export_module_data(output_path): whether it returns or raises, and what
\* json.load reads back from the file it wrote.  json.dump writes the text
\* piece by piece: when a value cannot be encoded it raises TypeError and the
\* file keeps the text written so far, which is no JSON document.
ExportModuleData(ms, rules, vs) ==
    IF \A n \in DOMAIN ms : JsonEncodable(ms[n])
    THEN [raised |-> "none", loads |-> TRUE, document |-> ModuleData(ms, rules, vs)]
    ELSE [raised |-> "TypeError", loads |-> FALSE, document |-> <<>>]

-----------------------------------------------------------------------------
(* The module roots the model checks: names, declarations and files        *)

N_a == <<"a">>
N_b == <<"b">>
N_x == <<"x">>
F_f == <<"f">>
F_g == <<"g">>
F_h == <<"h">>
F_q == <<"q">>
M_act == <<"a", "c", "t">>
M_total == <<"t", "o", "t", "a", "l">>
M_other == <<"o", "t", "h", "e", "r">>
W_library_book == <<"l", "i", "b", "r", "a", "r", "y", ".", "b", "o", "o", "k">>
W_library_author == <<"l", "i", "b", "r", "a", "r", "y", ".", "a", "u", "t", "h", "o", "r">>
W_title == <<"t", "i", "t", "l", "e">>
W_author_id == <<"a", "u", "t", "h", "o", "r", "_", "i", "d">>

\* class X(models.Model)
ModelBase == Attribute(Name(W_models), "Model")

\* target = "value"
StrAssign(target, value) == Assign(<<Name(target)>>, Str(value))

\* target = fields.<field_type>(*args, **keywords)
FieldAssign(target, field_type, args, keywords) ==
    Assign(<<Name(target)>>, Call(Attribute(Name(W_fields), field_type), args, keywords))

\* @api.<attr>(*args)
ApiDecorator(attr, args) == Call(Attribute(Name(W_api), attr), args, <<>>)

\* def name(self): return ...
SimpleMethod(name, decorators) ==
    FunctionDef(name, decorators, <<W_self>>, PyNone, <<Stmt("Return", <<>>)>>, 1, 2)

\* def name(self): if x and y: return ...
BranchingMethod(name, decorators) ==
    FunctionDef(name, decorators, <<W_self>>, PyNone,
                <<Stmt("If", <<BoolOp("And", <<Stmt("Name", <<>>), Stmt("Name", <<>>)>>),
                               Stmt("Return", <<>>)>>)>>, 1, 3)

\* _name = "a": no field, no method
ClassPlainA == ClassDef(<<ModelBase>>, <<StrAssign(W_name, N_a)>>)

\* _name = "a"; _inherit = ["b", "x"]: no field, no method
ClassChildA ==
    ClassDef(<<ModelBase>>,
             <<StrAssign(W_name, N_a),
               Assign(<<Name(W_inherit)>>, ListOf(<<N_b, N_x>>))>>)

\* _name = "a"; _inherit = "b"; three fields, a method and a compute method
ClassRelA ==
    ClassDef(<<ModelBase>>,
             <<StrAssign(W_name, N_a),
               StrAssign(W_inherit, N_b),
               FieldAssign(F_f, "Many2one", <<Str(N_b)>>, <<>>),
               FieldAssign(F_g, "Char", <<>>,
                           <<Keyword("required", NameConstant(PyTrue))>>),
               FieldAssign(F_h, "One2many", <<Str(N_x), Str(F_f)>>, <<>>),
               BranchingMethod(M_act, <<>>),
               SimpleMethod(M_total,
                            <<ApiDecorator("depends", <<Str(F_f \o <<".">> \o F_g),
                                                        Str(F_g)>>)>>)>>)

W_name_uniq == <<"n", "a", "m", "e", "_", "u", "n", "i", "q">>
W_code_uniq == <<"c", "o", "d", "e", "_", "u", "n", "i", "q">>
W_unique == <<"u", "n", "i", "q", "u", "e">>

\* _name = "b": two constraints; a relational field with an empty name, one
\* without argument, one whose argument is no literal, one whose required and
\* store keywords are no literals; a private method and a compute method
ClassB ==
    ClassDef(<<Name(W_Model)>>,
             <<StrAssign(W_name, N_b),
               StrAssign(W_description, <<"B">>),
               Assign(<<Name(W_sql_constraints)>>,
                      ListOfTuples(<<<<W_name_uniq, W_unique, <<>>>>,
                                     <<W_code_uniq, W_unique, <<>>>>>>)),
               FieldAssign(F_f, "Many2one", <<Str(<<>>)>>, <<>>),
               FieldAssign(F_g, "Many2one", <<>>,
                           <<Keyword("comodel_name", Str(N_a))>>),
               FieldAssign(F_h, "Many2many", <<Name(N_x)>>, <<>>),
               FieldAssign(F_q, "Many2one", <<Str(N_a)>>,
                           <<Keyword("required", Name(N_x)),
                             Keyword("store", Name(N_x)),
                             Keyword("string", Name(N_x))>>),
               SimpleMethod(<<"_">> \o M_act, <<>>),
               SimpleMethod(W_compute_ \o M_total, <<>>)>>)

\* a second declaration of "a": another field, another method, no parent
ClassOtherA ==
    ClassDef(<<ModelBase>>,
             <<StrAssign(W_name, N_a),
               FieldAssign(F_q, "Many2many", <<Str(N_x)>>, <<>>),
               SimpleMethod(M_other, <<ApiDecorator("onchange", <<Str(F_q)>>)>>)>>)

\* _inherit = "a" without _name: an extension class
ClassExtension ==
    ClassDef(<<ModelBase>>,
             <<StrAssign(W_inherit, N_a),
               FieldAssign(F_g, "Many2one", <<Str(N_b)>>, <<>>),
               SimpleMethod(M_act, <<>>)>>)

\* _name = "a" followed by _name = "b" in the same body
ClassTwoNames ==
    ClassDef(<<ModelBase>>,
             <<StrAssign(W_name, N_a),
               StrAssign(W_name, N_b),
               FieldAssign(F_h, "Many2one", <<Str(N_x)>>, <<>>),
               SimpleMethod(M_other, <<>>)>>)

\* a class that is no model
ClassNoModel ==
    ClassDef(<<Name(<<"o", "b", "j", "e", "c", "t">>)>>,
             <<StrAssign(W_name, N_x),
               FieldAssign(F_f, "Many2one", <<Str(N_a)>>, <<>>)>>)

\* _name = "b": a method, then a method whose decorator is x.y.z(...)
ClassBadDecorator ==
    ClassDef(<<ModelBase>>,
             <<StrAssign(W_name, N_b),
               FieldAssign(F_f, "Many2one", <<Str(N_a)>>, <<>>),
               SimpleMethod(M_act, <<>>),
               SimpleMethod(M_other,
                            <<Call(Attribute(Attribute(Name(N_x), "y"), "z"),
                                   <<>>, <<>>)>>)>>)

\* the scenario of the library: _name = "library.book", title, author_id
ClassLibraryBook ==
    ClassDef(<<ModelBase>>,
             <<StrAssign(W_name, W_library_book),
               FieldAssign(W_title, "Char", <<>>,
                           <<Keyword("required", NameConstant(PyTrue))>>),
               FieldAssign(W_author_id, "Many2one", <<Str(W_library_author)>>, <<>>)>>)

ModelFile(name, classes) == [name |-> name, syntax_ok |-> TRUE, classes |-> classes]

\* a file ast.parse rejects
BrokenFile == [name |-> "broken.py", syntax_ok |-> FALSE, classes |-> <<>>]

FilePool ==
    {ModelFile("plain_a.py", <<ClassPlainA>>),
     ModelFile("child_a.py", <<ClassChildA>>),
     ModelFile("rel_a.py", <<ClassRelA>>),
     ModelFile("b.py", <<ClassB, ClassNoModel>>),
     ModelFile("other_a.py", <<ClassOtherA, ClassExtension>>),
     ModelFile("two_names.py", <<ClassTwoNames>>),
     ModelFile("bad_decorator.py", <<ClassBadDecorator>>),
     ModelFile("library_book.py", <<ClassLibraryBook>>),
     ModelFile("__init__.py", <<ClassPlainA>>),
     BrokenFile}


W_access_a == <<"a", "c", "c", "e", "s", "s", "_", "a">>
W_access_b == <<"a", "c", "c", "e", "s", "s", "_", "b">>
W_access_book == <<"a", "c", "c", "e", "s", "s", "_", "b", "o", "o", "k">>
W_model_a == W_model_ \o N_a
W_model_b == W_model_ \o N_b
W_model_library_book ==
    W_model_ \o <<"l", "i", "b", "r", "a", "r", "y", "_", "b", "o", "o", "k">>
W_library_book_ref == <<"l", "i", "b", "r", "a", "r", "y", "_", "b", "o", "o", "k">>
W_group_user ==
    <<"b", "a", "s", "e", ".", "g", "r", "o", "u", "p", "_", "u", "s", "e", "r">>
W_rule_a == <<"r", "u", "l", "e", "_", "a">>
W_rule == <<"r", "u", "l", "e">>
W_view_a == <<"v", "i", "e", "w", "_", "a">>
W_menu_a == <<"m", "e", "n", "u", "_", "a">>
W_form == <<"f", "o", "r", "m">>

\* one row of ir.model.access.csv under the usual header
AccessRow(id, model_ref, group_ref, r, w, c, u) ==
    ("id" :> id) @@ ("model_id:id" :> model_ref) @@ ("group_id:id" :> group_ref)
    @@ ("perm_read" :> r) @@ ("perm_write" :> w) @@ ("perm_create" :> c)
    @@ ("perm_unlink" :> u)

\* access_book,model_library_book,base.group_user,1,0,0,0
RowAccessBook ==
    AccessRow(W_access_book, W_model_library_book, W_group_user,
              <<"1">>, <<"0">>, <<"0">>, <<"0">>)

RowPool ==
    {RowAccessBook,
     AccessRow(W_access_a, W_model_a, W_group_user, <<"1">>, <<"1">>, <<"1">>, <<"1">>),
     AccessRow(W_access_b, W_model_b, <<>>, <<"1">>, <<"T">>, <<>>, <<"0">>),
     AccessRow(W_access_a, W_model_ \o <<"i", "r", "_">> \o W_model_ \o N_a, W_group_user,
               <<"0">>, <<"0">>, <<"0">>, <<"1">>),
     AccessRow(W_access_b, <<>>, W_group_user, <<"1">>, <<"0">>, <<"0">>, <<"0">>),
     ("id" :> W_access_book) @@ ("perm_read" :> <<"1">>)}

Field(attrib, text, children) == Element("field", attrib, text, children)

\* <record id="rule_a" model="ir.rule"> with model_id, domain_force and groups
RuleRecordA ==
    Element("record", [id |-> W_rule_a, model |-> W_ir_rule], PyNone,
            <<Field([name |-> W_model_id, ref |-> W_model_a], PyNone, <<>>),
              Field([name |-> W_domain_force], <<"[", "]">>, <<>>),
              Field([name |-> W_groups], PyNone,
                    <<Field([ref |-> W_group_user], PyNone, <<>>)>>)>>)

RuleFile(name, elements) == [name |-> name, wellformed |-> TRUE, elements |-> elements]

\* security/ with an access file of the given rows and one rule file
SecurityDir(rows) ==
    [exists |-> TRUE,
     access |-> [exists |-> TRUE, rows |-> rows],
     rule_files |-> <<RuleFile(W_rule_a, <<RuleRecordA>>)>>]

\* <record id="view_a" model="ir.ui.view"> with model, type, priority and arch
ViewRecordA ==
    Element("record", [id |-> W_view_a, model |-> W_ir_ui_view], PyNone,
            <<Field([name |-> W_model], N_a, <<>>),
              Field([name |-> W_type], W_form, <<>>),
              Field([name |-> W_priority], <<"2", "0">>, <<>>),
              Field([name |-> W_arch], PyNone,
                    <<Element("form", <<>>, PyNone,
                              <<Field([name |-> F_f], PyNone, <<>>),
                                Field([name |-> F_g], PyNone, <<>>)>>)>>)>>)

\* <menuitem id="menu_a" name="a" sequence="x" groups="base.group_user,a"/>
MenuItemA ==
    Element("menuitem",
            [id |-> W_menu_a, name |-> N_a, sequence |-> N_x,
             groups |-> W_group_user \o <<",">> \o N_a],
            PyNone, <<>>)

\* views/ with one file: an element that wraps the view record, and a menu item
ViewsDir ==
    <<[wellformed |-> TRUE,
       elements |-> <<Element("odoo", <<>>, PyNone, <<ViewRecordA>>), MenuItemA>>]>>

\* the module roots of the specification Spec: every sequence of model files
\* of the pool, beside a fixed manifest, views/ and security/
ModelRoots ==
    {[manifest |-> "ok", models_dir |-> files, views_dir |-> ViewsDir,
      security |-> SecurityDir(<<RowAccessBook>>)]
     : files \in SeqsOf(FilePool, 0, MaxFiles)}

\* the module roots of the specification SpecSecurity: every sequence of
\* access rows of the pool beside a rule file, for a few entity sets, and a
\* root without security/
SecurityModelFiles ==
    {<<>>,
     <<ModelFile("plain_a.py", <<ClassPlainA>>)>>,
     <<ModelFile("plain_a.py", <<ClassPlainA>>), ModelFile("b.py", <<ClassB>>)>>,
     <<ModelFile("library_book.py", <<ClassLibraryBook>>)>>}

SecurityRoots ==
    {[manifest |-> "absent", models_dir |-> files, views_dir |-> <<>>,
      security |-> SecurityDir(rows)]
     : files \in SecurityModelFiles, rows \in SeqsOf(RowPool, 0, MaxRows)}
    \cup
    {[manifest |-> "bad", models_dir |-> files, views_dir |-> <<>>,
      security |-> [exists |-> FALSE, access |-> [exists |-> FALSE, rows |-> <<>>],
                    rule_files |-> <<>>]]
     : files \in SecurityModelFiles}

\* a record element of a rule file
RuleRecord(id, model, fields) ==
    Element("record", [id |-> id, model |-> model], PyNone, fields)

\* <field name="model_id" ref="..."/>
ModelIdField(ref) == Field([name |-> W_model_id, ref |-> ref], PyNone, <<>>)

\* <field name="domain_force">...</field>
DomainField(text) == Field([name |-> W_domain_force], text, <<>>)

W_domain_x == <<"[", "x", "]">>

\* the rule records of the specification SpecRules: one with groups; one
\* without groups under the id of an access row; one without a model_id field;
\* one whose model_id field has no ref; one whose ref is the bare prefix
\* "model_"; one whose model is not ir.rule
RuleRecordPool ==
    {RuleRecordA,
     RuleRecord(W_access_a, W_ir_rule, <<ModelIdField(W_model_b), DomainField(W_domain_x)>>),
     RuleRecord(W_access_a, W_ir_rule, <<DomainField(W_domain_x)>>),
     RuleRecord(W_rule_a, W_ir_rule,
                <<Field([name |-> W_model_id], PyNone, <<>>), DomainField(W_domain_x)>>),
     RuleRecord(W_access_b, W_ir_rule, <<ModelIdField(W_model_)>>),
     RuleRecord(W_access_a, W_ir_ui_view,
                <<ModelIdField(W_model_a), DomainField(W_domain_x)>>)}

\* access_a,model_a,base.group_user,1,0,0,0: an id of the rule records
RowAccessA ==
    AccessRow(W_access_a, W_model_a, W_group_user, <<"1">>, <<"0">>, <<"0">>, <<"0">>)

\* rule_a,,base.group_user,1,1,0,0: an id of the rule records, no model reference
RowNoModel ==
    AccessRow(W_rule_a, <<>>, W_group_user, <<"1">>, <<"1">>, <<"0">>, <<"0">>)

\* the access files of the specification SpecRules; the last has a row
\* without the model_id:id column
RuleAccessFiles ==
    {<<>>, <<RowAccessA>>, <<RowNoModel>>, <<RowAccessA, RowNoModel>>,
     <<("id" :> W_access_b) @@ ("perm_read" :> <<"1">>)>>}

\* the module roots of the specification SpecRules: every sequence of rule
\* records in one rule file, beside each of the access files
RuleRoots ==
    {[manifest |-> "absent",
      models_dir |-> <<ModelFile("plain_a.py", <<ClassPlainA>>)>>,
      views_dir |-> <<>>,
      security |-> [exists |-> TRUE,
                    access |-> [exists |-> TRUE, rows |-> rows],
                    rule_files |-> <<RuleFile(W_rule_a, records)>>]]
     : rows \in RuleAccessFiles,
       records \in SeqsOf(RuleRecordPool, 0, MaxRecords)}

\* the dependency paths of the specification SpecCompute: f.g, g, g.f.g,
\* f.f.g, h.f, q.f and "f."
PathPool ==
    {F_f \o <<".">> \o F_g,
     F_g,
     F_g \o <<".">> \o F_f \o <<".">> \o F_g,
     F_f \o <<".">> \o F_f \o <<".">> \o F_g,
     F_h \o <<".">> \o F_f,
     F_q \o <<".">> \o F_f,
     F_f \o <<".">>}

\* _name = "a" with f = Many2one("b"), g = Char(), h = Many2one("x"), a
\* method under api.depends with the paths and one under api.onchange
ClassComputeA(paths) ==
    ClassDef(<<ModelBase>>,
             <<StrAssign(W_name, N_a),
               FieldAssign(F_f, "Many2one", <<Str(N_b)>>, <<>>),
               FieldAssign(F_g, "Char", <<>>, <<>>),
               FieldAssign(F_h, "Many2one", <<Str(N_x)>>, <<>>),
               SimpleMethod(M_total,
                            <<ApiDecorator("depends",
                                           [k \in 1..Len(paths) |-> Str(paths[k])])>>),
               SimpleMethod(M_other,
                            <<ApiDecorator("onchange", <<Str(F_h \o <<".">> \o F_g)>>)>>)>>)

\* _name = "b" with f = Many2one("x") and g = Char()
ClassTargetB ==
    ClassDef(<<ModelBase>>,
             <<StrAssign(W_name, N_b),
               FieldAssign(F_f, "Many2one", <<Str(N_x)>>, <<>>),
               FieldAssign(F_g, "Char", <<>>, <<>>)>>)

\* the module roots of the specification SpecCompute: every sequence of
\* dependency paths on the compute method of "a", with and without the file
\* that declares "b"
ComputeRoots ==
    {[manifest |-> "absent",
      models_dir |-> <<ModelFile("compute_a.py", <<ClassComputeA(paths)>>)>> \o others,
      views_dir |-> <<>>,
      security |-> [exists |-> FALSE, access |-> [exists |-> FALSE, rows |-> <<>>],
                    rule_files |-> <<>>]]
     : paths \in SeqsOf(PathPool, 0, MaxPaths),
       others \in {<<>>, <<ModelFile("target_b.py", <<ClassTargetB>>)>>}}

\* _name = name; _inherit = [parents]: no field, no method
ClassWithParents(name, parents) ==
    ClassDef(<<ModelBase>>,
             <<StrAssign(W_name, name), Assign(<<Name(W_inherit)>>, ListOf(parents))>>)

\* the module roots of the specification SpecChains: files that declare
\* "a", "b" or "x" with no parent, one parent or two, itself among them
ChainFiles ==
    {ModelFile(CASE n = N_a -> "a.py" [] n = N_b -> "b.py" [] OTHER -> "x.py",
               <<ClassWithParents(n, ps)>>) :
        n \in {N_a, N_b, N_x},
        ps \in {<<>>, <<N_a>>, <<N_b>>, <<N_x>>, <<N_b, N_x>>, <<F_q>>}}

ChainRoots ==
    {[manifest |-> "absent", models_dir |-> files, views_dir |-> <<>>,
      security |-> [exists |-> FALSE, access |-> [exists |-> FALSE, rows |-> <<>>],
                    rule_files |-> <<>>]]
     : files \in {fs \in SeqsOf(ChainFiles, 0, MaxFiles) :
                     \A i, j \in 1..Len(fs) : i # j => fs[i].name # fs[j].name}}

W_view_b == <<"v", "i", "e", "w", "_", "b">>
W_view_c == <<"v", "i", "e", "w", "_", "c">>
W_view_d == <<"v", "i", "e", "w", "_", "d">>
W_view_e == <<"v", "i", "e", "w", "_", "e">>
W_view_f == <<"v", "i", "e", "w", "_", "f">>
W_view_g == <<"v", "i", "e", "w", "_", "g">>
W_tree == <<"t", "r", "e", "e">>

\* <record ...> with the given attributes and fields
ViewRecord(attrib, fields) == Element("record", attrib, PyNone, fields)

\* <field name="arch"><tree><field name="f"/></tree></field>
ArchTree ==
    Field([name |-> W_arch], PyNone,
          <<Element("tree", <<>>, PyNone, <<Field([name |-> F_f], PyNone, <<>>)>>)>>)

\* <field name="arch"/>
ArchEmpty == Field([name |-> W_arch], PyNone, <<>>)

\* the record elements of the view files of the specification SpecViews
ViewRecordPool ==
    {ViewRecordA,
     \* model and type, and an arch field with nothing in it
     ViewRecord([id |-> W_view_b, model |-> W_ir_ui_view],
                <<Field([name |-> W_model], N_a, <<>>),
                  Field([name |-> W_type], W_form, <<>>), ArchEmpty>>),
     \* the identifier of ViewRecordA, with a priority that is no integer
     ViewRecord([id |-> W_view_a, model |-> W_ir_ui_view],
                <<Field([name |-> W_model], N_b, <<>>),
                  Field([name |-> W_type], W_tree, <<>>),
                  Field([name |-> W_priority], N_x, <<>>), ArchTree>>),
     \* no type field
     ViewRecord([id |-> W_view_c, model |-> W_ir_ui_view],
                <<Field([name |-> W_model], N_a, <<>>), ArchTree>>),
     \* a model field without text
     ViewRecord([id |-> W_view_d, model |-> W_ir_ui_view],
                <<Field([name |-> W_model], PyNone, <<>>),
                  Field([name |-> W_type], W_form, <<>>), ArchTree>>),
     \* no id attribute
     ViewRecord([model |-> W_ir_ui_view],
                <<Field([name |-> W_model], N_a, <<>>),
                  Field([name |-> W_type], W_form, <<>>), ArchTree>>),
     \* an empty id attribute
     ViewRecord([id |-> <<>>, model |-> W_ir_ui_view],
                <<Field([name |-> W_model], N_a, <<>>),
                  Field([name |-> W_type], W_form, <<>>), ArchTree>>),
     \* a record of another model
     ViewRecord([id |-> W_view_e, model |-> W_ir_rule],
                <<Field([name |-> W_model], N_a, <<>>),
                  Field([name |-> W_type], W_form, <<>>), ArchTree>>),
     \* no arch field
     ViewRecord([id |-> W_view_f, model |-> W_ir_ui_view],
                <<Field([name |-> W_model], N_a, <<>>),
                  Field([name |-> W_type], W_form, <<>>),
                  Field([name |-> W_priority], <<"5">>, <<>>)>>),
     \* the form of a view lists a field named type: it is found after the
     \* type field of the record and has no text
     ViewRecord([id |-> W_view_g, model |-> W_ir_ui_view],
                <<Field([name |-> W_model], N_a, <<>>),
                  Field([name |-> W_type], W_form, <<>>),
                  Field([name |-> W_arch], PyNone,
                        <<Element("form", <<>>, PyNone,
                                  <<Field([name |-> W_type], PyNone, <<>>)>>)>>)>>)}

\* the module roots of the specification SpecViews: every sequence of view
\* records in one view file, well-formed or not
ViewRoots ==
    {[manifest |-> "absent",
      models_dir |-> <<ModelFile("plain_a.py", <<ClassPlainA>>)>>,
      views_dir |-> <<[wellformed |-> ok,
                       elements |-> <<Element("odoo", <<>>, PyNone, records)>>]>>,
      security |-> [exists |-> FALSE, access |-> [exists |-> FALSE, rows |-> <<>>],
                    rule_files |-> <<>>]]
     : ok \in BOOLEAN, records \in SeqsOf(ViewRecordPool, 0, MaxRecords)}

\* _name, _inherit and one relational field, each given by an expression
ClassOfLiterals(name_value, inherit_value, argument) ==
    ClassDef(<<ModelBase>>,
             <<Assign(<<Name(W_name)>>, name_value),
               Assign(<<Name(W_inherit)>>, inherit_value),
               FieldAssign(F_f, "Many2one", <<argument>>, <<>>)>>)

\* the classes of the specification SpecLiterals: a str, True or None for
\* _name; a str, a list, None, False or a name for _inherit; a str, True or
\* None for the related model
LiteralClasses ==
    {ClassOfLiterals(n, i, a) :
        n \in {Str(N_a), NameConstant(PyTrue), NameConstant(PyNone)},
        i \in {Str(N_b), ListOf(<<N_b, N_x>>), NameConstant(PyNone),
               NameConstant(PyFalse), Name(N_x)},
        a \in {Str(N_b), NameConstant(PyTrue), NameConstant(PyNone)}}

\* a file of views/ that is not well-formed markup
MalformedFile == [wellformed |-> FALSE, elements |-> <<>>]

\* the module roots of the specification SpecLiterals: one model file or
\* none, with and without manifest, views/ and security/
LiteralRoots ==
    {[manifest |-> m, models_dir |-> files, views_dir |-> vs, security |-> sec]
     : m \in {"ok", "bad", "absent"},
       files \in {<<>>} \cup {<<ModelFile("literals.py", <<c>>)>> : c \in LiteralClasses},
       vs \in {<<>>, ViewsDir \o <<MalformedFile>>},
       sec \in {SecurityDir(<<("id" :> W_access_book) @@ ("perm_read" :> <<"1">>)>>),
                [exists |-> FALSE, access |-> [exists |-> FALSE, rows |-> <<>>],
                 rule_files |-> <<>>]}}

\* method bodies: boolean expressions of 2..MaxOperands operands, one level of
\* nesting, conditional expressions, and conditionals and loops nested twice
Operand == Stmt("Name", <<>>)

BoolOpsOver(S) ==
    {BoolOp(op, values) : op \in {"And", "Or"}, values \in SeqsOf(S, 2, MaxOperands)}

BodyExprs ==
    {Operand, Stmt("IfExp", <<Operand, Operand, Operand>>)}
    \cup BoolOpsOver({Operand})
    \cup {BoolOp(op, <<Operand, b>>) : op \in {"And", "Or"}, b \in BoolOpsOver({Operand})}

SimpleStmts == {Stmt("Expr", <<e>>) : e \in BodyExprs}

BranchStmts(tests, bodies) ==
    {Stmt(k, <<t, b>>) : k \in {"If", "While", "For"}, t \in tests, b \in bodies}

BodyStmts ==
    SimpleStmts
    \cup BranchStmts(BodyExprs, SimpleStmts)
    \cup BranchStmts({Operand}, BranchStmts(BoolOpsOver({Operand}), {Stmt("Pass", <<>>)}))

\* _name = "a" and one method with the given body
ClassWithMethod(body) ==
    ClassDef(<<ModelBase>>,
             <<StrAssign(W_name, N_a),
               FunctionDef(M_act, <<>>, <<W_self>>, PyNone, body, 1, 4)>>)

\* the module roots of the specification SpecComplexity: one model file with
\* one method, for every body of one or two statements (the second a return)
ComplexityRoots ==
    {[manifest |-> "absent",
      models_dir |-> <<ModelFile("a.py", <<ClassWithMethod(body)>>)>>,
      views_dir |-> <<>>,
      security |-> SecurityDir(<<>>)]
     : body \in {<<st>> : st \in BodyStmts}
                \cup {<<st, Stmt("Return", <<e>>)>> :
                          st \in BranchStmts({Operand}, {Stmt("Pass", <<>>)}),
                          e \in BoolOpsOver({Operand})}}

-----------------------------------------------------------------------------
(* The parser as a state machine *)

NoResult == [op |-> "none"]

\* the collections of the parser
Collections ==
    [models |-> models, views |-> views, security_rules |-> security_rules,
     menu_items |-> menu_items, model_dependencies |-> model_dependencies,
     field_dependencies |-> field_dependencies]

\* OdooModuleParser(module_path): __init__
InitParser ==
    /\ models = EmptyDict
    /\ views = EmptyDict
    /\ security_rules = EmptyDict
    /\ menu_items = EmptyDict
    /\ manifest = "empty"
    /\ model_dependencies = EmptyDict
    /\ field_dependencies = EmptyDict

InitOn(roots) ==
    /\ root \in roots
    /\ InitParser
    /\ pc = "parse_manifest"
    /\ idx = 0
    /\ result = NoResult
    /\ runs = 1
    /\ edited = FALSE
    /\ prev = [unchanged |-> FALSE, fresh |-> FALSE, was_fresh |-> FALSE,
               collections |-> <<>>]
    /\ disk = {}

Init == InitOn(ModelRoots)

\* _parse_manifest()
ParseManifest ==
    /\ pc = "parse_manifest"
    /\ manifest' = CASE root.manifest = "ok" -> "parsed"
                     [] root.manifest = "bad" -> "empty"
                     [] OTHER -> manifest
    /\ idx' = 0
    /\ pc' = IF root.models_dir = <<>> THEN "parse_views" ELSE "parse_models"
    /\ UNCHANGED <<disk, root, models, views, security_rules, menu_items,
                   model_dependencies, field_dependencies, result, runs, prev, edited>>

\* one turn of the loop of _parse_models(): the next file of models/
ParseModelFileStep ==
    /\ pc = "parse_models"
    /\ idx < Len(root.models_dir)
    /\ LET file == root.models_dir[idx + 1] IN
       models' = IF file.name = "__init__.py" THEN models
                 ELSE ParseModelFile(file, models)
    /\ idx' = idx + 1
    /\ pc' = IF idx + 1 = Len(root.models_dir) THEN "parse_views" ELSE "parse_models"
    /\ UNCHANGED <<disk, root, views, security_rules, menu_items, manifest,
                   model_dependencies, field_dependencies, result, runs, prev, edited>>

\* _parse_views()
ParseViews ==
    /\ pc = "parse_views"
    /\ views' = ParseViewFiles(root.views_dir, views)
    /\ pc' = "parse_security"
    /\ UNCHANGED <<disk, root, idx, models, security_rules, menu_items, manifest,
                   model_dependencies, field_dependencies, result, runs, prev, edited>>

\* the rule files _parse_security() reads: those with 'rule' in their name
RECURSIVE RuleFilesOf(_)
RuleFilesOf(files) ==
    IF files = <<>> THEN <<>>
    ELSE (IF Contains(Head(files).name, W_rule) THEN <<Head(files)>> ELSE <<>>)
         \o RuleFilesOf(Tail(files))

\* _parse_security()
ParseSecurityStep ==
    /\ pc = "parse_security"
    /\ security_rules' =
           ParseSecurity([root.security EXCEPT !.rule_files = RuleFilesOf(@)],
                         security_rules)
    /\ pc' = "parse_menus"
    /\ UNCHANGED <<disk, root, idx, models, views, menu_items, manifest,
                   model_dependencies, field_dependencies, result, runs, prev, edited>>

\* _parse_menus()
ParseMenus ==
    /\ pc = "parse_menus"
    /\ menu_items' = ParseMenuFiles(root.views_dir, menu_items)
    /\ pc' = "analyze_dependencies"
    /\ UNCHANGED <<disk, root, idx, models, views, security_rules, manifest,
                   model_dependencies, field_dependencies, result, runs, prev, edited>>

\* the analysis running in the place of the menu extraction, which is left out
AnalyzeDependenciesBeforeMenus ==
    /\ pc = "parse_menus"
    /\ ~AnalyzeRaises(models)
    /\ model_dependencies' = AnalyzeModelDependencies(models, model_dependencies)
    /\ field_dependencies' = AnalyzeFieldDependencies(models, field_dependencies)
    /\ pc' = "done"
    /\ UNCHANGED <<disk, root, idx, models, views, security_rules, menu_items, manifest,
                   result, runs, prev, edited>>

\* _analyze_dependencies(), the last step of parse_module().  It has no
\* exception handler: when it raises, parse_module() raises to its caller.
AnalyzeDependencies ==
    /\ pc = "analyze_dependencies"
    /\ IF AnalyzeRaises(models)
       THEN /\ model_dependencies' =
                   InterruptedModelDependencies(models, model_dependencies)
            /\ field_dependencies' =
                   InterruptedFieldDependencies(models, field_dependencies)
            /\ pc' = "raised"
       ELSE /\ model_dependencies' =
                   AnalyzeModelDependencies(models, model_dependencies)
            /\ field_dependencies' =
                   AnalyzeFieldDependencies(models, field_dependencies)
            /\ pc' = "done"
    /\ UNCHANGED <<disk, root, idx, models, views, security_rules, menu_items, manifest,
                   result, runs, prev, edited>>

\* a call on the visualizer of the parsed module
VisualizerCall(op, value) ==
    /\ pc = "done"
    /\ result' = [op |-> op, value |-> value]
    /\ UNCHANGED <<disk, root, pc, idx, models, views, security_rules, menu_items,
                   manifest, model_dependencies, field_dependencies, runs, prev,
                   edited>>

RelationshipGraph ==
    VisualizerCall("generate_relationship_graph", GenerateRelationshipGraph(models))

SecurityCoverage ==
    VisualizerCall("_get_security_coverage", GetSecurityCoverage(models, security_rules))

Export ==
    VisualizerCall("export_module_data", ExportModuleData(models, security_rules, views))

InheritanceChains ==
    VisualizerCall("_get_inheritance_chains", GetInheritanceChains(models))

\* a step of main() on the parsed module that writes an output file: the
\* file exists from the moment it is opened for writing; when the step ends
\* by os.remove the file is gone, when it is left by an exception the file
\* stays
DisplayStep(op, path, value) ==
    /\ pc = "done"
    /\ result' = [op |-> op, value |-> value]
    /\ disk' = IF value.raised = "none" THEN disk \ {path} ELSE disk \cup {path}
    /\ UNCHANGED <<root, pc, idx, models, views, security_rules, menu_items,
                   manifest, model_dependencies, field_dependencies, runs, prev,
                   edited>>

\* the tree of the models tab: generate_html("temp_tree.html") writes the
\* page in one piece, the file is read and removed
TreeTab ==
    DisplayStep("tree", "temp_tree.html", [raised |-> "none", loads |-> TRUE])

\* the Export button with the JSON format: export_module_data opens
\* "module_data.json" and dumps into it; the file is read for the download
\* and removed, unless the dump raised
ExportTab ==
    DisplayStep("export", "module_data.json",
                ExportModuleData(models, security_rules, views))

\* a file of models/ is deleted between two runs
RemoveFile ==
    /\ pc = "done"
    /\ runs < MaxRuns
    /\ root.models_dir # <<>>
    /\ root' = [root EXCEPT !.models_dir = SubSeq(@, 1, Len(@) - 1)]
    /\ edited' = TRUE
    /\ UNCHANGED <<disk, pc, idx, models, views, security_rules, menu_items,
                   manifest, model_dependencies, field_dependencies, result, runs, prev>>

\* what a new run remembers of the run that ended: whether the root is as that
\* run left it, whether the new run is on a new parser, whether the run that
\* ended was, and the collections that run ended with
Remember(fresh) ==
    /\ prev' = [unchanged |-> ~edited, fresh |-> fresh,
                was_fresh |-> (runs = 1 \/ prev.fresh), collections |-> Collections]
    /\ edited' = FALSE
    /\ runs' = runs + 1
    /\ result' = NoResult
    /\ pc' = "parse_manifest"
    /\ idx' = 0

\* parse_module() is called again on the same parser
Reparse ==
    /\ pc = "done"
    /\ runs < MaxRuns
    /\ Remember(FALSE)
    /\ UNCHANGED <<disk, root, models, views, security_rules, menu_items, manifest,
                   model_dependencies, field_dependencies>>

\* a new OdooModuleParser is made for the same root, and parse_module() called
NewParser ==
    /\ pc = "done"
    /\ runs < MaxRuns
    /\ Remember(TRUE)
    /\ models' = EmptyDict
    /\ views' = EmptyDict
    /\ security_rules' = EmptyDict
    /\ menu_items' = EmptyDict
    /\ manifest' = "empty"
    /\ model_dependencies' = EmptyDict
    /\ field_dependencies' = EmptyDict
    /\ UNCHANGED <<disk, root>>

Next ==
    \/ ParseManifest
    \/ ParseModelFileStep
    \/ ParseViews
    \/ ParseSecurityStep
    \/ ParseMenus
    \/ AnalyzeDependencies
    \/ RelationshipGraph
    \/ SecurityCoverage
    \/ Export
    \/ InheritanceChains
    \/ TreeTab
    \/ ExportTab
    \/ RemoveFile
    \/ Reparse
    \/ NewParser

Spec == Init /\ [][Next]_vars

\* the same parser on the roots that vary the security sources
InitSecurity == InitOn(SecurityRoots)

SpecSecurity == InitSecurity /\ [][Next]_vars

\* the same parser on the roots that vary the body of a method
InitComplexity == InitOn(ComplexityRoots)

SpecComplexity == InitComplexity /\ [][Next]_vars

\* the same parser on the roots that vary the rule records
InitRules == InitOn(RuleRoots)

SpecRules == InitRules /\ [][Next]_vars

\* the same parser on the roots that vary the literals of a declaration
InitLiterals == InitOn(LiteralRoots)

SpecLiterals == InitLiterals /\ [][Next]_vars

\* the same parser on the roots that vary the records of a view file
InitViews == InitOn(ViewRoots)

SpecViews == InitViews /\ [][Next]_vars

\* the same parser on the roots that vary the paths of a compute method
InitCompute == InitOn(ComputeRoots)

SpecCompute == InitCompute /\ [][Next]_vars

\* the same parser on the roots that vary the parents of the entities
InitChains == InitOn(ChainRoots)

SpecChains == InitChains /\ [][Next]_vars

-----------------------------------------------------------------------------
(* The claims *)

\* parse_module() has returned, and the collections are what a new parser
\* extracted from the root as it is
ParsedFresh == pc = "done" /\ ~edited /\ (runs = 1 \/ prev.fresh)

\* v is the name of an entity: a str that is not empty
IsEntityName(v) == v # PyNone /\ v # <<>>

\* C1: after parse_module, for every extracted entity E and every relational
\* field F of E whose related entity is R, the pair (F.name, R) is in
\* field_dependencies[E] and R is in model_dependencies[E], whether or not R is
\* itself an extracted entity.
RelationalFieldsAreDependencies ==
    pc = "done" =>
        \A E \in DOMAIN models : \A F \in DOMAIN models[E].fields :
            LET fld == models[E].fields[F] IN
            (fld.field_type \in RelationalTypes /\ IsEntityName(fld.related_model)) =>
                /\ <<fld.name, fld.related_model>> \in field_dependencies[E]
                /\ fld.related_model \in model_dependencies[E]

\* an entity with a relational field to an entity that was not extracted and
\* one to an entity that was
DanglingRelationAnalyzed ==
    /\ pc = "done"
    /\ \E E \in DOMAIN models : \E F, G \in DOMAIN models[E].fields :
           /\ models[E].fields[F].field_type \in RelationalTypes
           /\ IsEntityName(models[E].fields[F].related_model)
           /\ models[E].fields[F].related_model \notin DOMAIN models
           /\ models[E].fields[G].field_type \in RelationalTypes
           /\ models[E].fields[G].related_model \in DOMAIN models

\* C2: after parse_module, every name of an extracted entity's parent list is
\* in model_dependencies of that entity, also when the parent is not among the
\* extracted entities.
ParentsAreDependencies ==
    pc = "done" =>
        \A E \in DOMAIN models : \A i \in 1..Len(models[E].inherit) :
            models[E].inherit[i] \in model_dependencies[E]

\* an entity with a parent that was not extracted
DanglingParentAnalyzed ==
    /\ pc = "done"
    /\ \E E \in DOMAIN models : \E i \in 1..Len(models[E].inherit) :
           models[E].inherit[i] \notin DOMAIN models

\* C3: after every run of the dependency analysis, a second run on the same
\* parser included, the keys of model_dependencies and of field_dependencies
\* are exactly the extracted entity names, and each entry holds only what the
\* entities as they are now produce.
DependenciesCoverExactlyTheEntities ==
    pc = "done" =>
        /\ DOMAIN model_dependencies = DOMAIN models
        /\ DOMAIN field_dependencies = DOMAIN models
        /\ \A E \in DOMAIN models :
               LET fs == models[E].fields
                   ms == models[E].methods
               IN  /\ \A T \in model_dependencies[E] :
                          \/ \E i \in 1..Len(models[E].inherit) : models[E].inherit[i] = T
                          \/ \E F \in DOMAIN fs : fs[F].related_model = T
                   /\ \A p \in field_dependencies[E] :
                          \/ p[1] \in DOMAIN fs /\ fs[p[1]].related_model = p[2]
                          \/ /\ p[1] \in DOMAIN ms
                             /\ ms[p[1]].is_compute
                             /\ \E F \in DOMAIN fs : fs[F].related_model = p[2]

\* a second run on the same parser after which an entity depends on less than
\* it did after the first run, while a name that is only a target is no key
SecondRunDropsDependency ==
    /\ pc = "done"
    /\ runs > 1
    /\ ~prev.fresh
    /\ \E E \in DOMAIN models \cap DOMAIN prev.collections.model_dependencies :
           /\ ~(prev.collections.model_dependencies[E] \subseteq model_dependencies[E])
    /\ \E E \in DOMAIN models : \E T \in model_dependencies[E] : T \notin DOMAIN models

\* C4: the module whose single model file declares _name = "library.book",
\* title = fields.Char(required=True) and author_id =
\* fields.Many2one("library.author") yields exactly the entity library.book with
\* exactly these two fields, title required and without related model,
\* author_id a Many2one to library.author, and the dependency set
\* {"library.author"}.
LibraryBookScenario ==
    (ParsedFresh /\ root.models_dir = <<ModelFile("library_book.py", <<ClassLibraryBook>>)>>)
    => /\ DOMAIN models = {W_library_book}
       /\ DOMAIN models[W_library_book].fields = {W_title, W_author_id}
       /\ models[W_library_book].fields[W_title].required = PyTrue
       /\ models[W_library_book].fields[W_title].related_model = PyNone
       /\ models[W_library_book].fields[W_author_id].field_type = "Many2one"
       /\ models[W_library_book].fields[W_author_id].related_model = W_library_author
       /\ model_dependencies[W_library_book] = {W_library_author}

\* the library module has been parsed
LibraryBookParsed ==
    /\ ParsedFresh
    /\ root.models_dir = <<ModelFile("library_book.py", <<ClassLibraryBook>>)>>
    /\ W_library_book \in DOMAIN model_dependencies

\* C8: running parse_module twice on an unchanged root, with two new parsers or
\* twice on the same parser, yields equal entity, field, method, view and
\* security-rule collections and equal dependency maps.
RepeatedExtractionIsEqual ==
    (pc = "done" /\ runs > 1 /\ prev.unchanged /\ (~prev.fresh \/ prev.was_fresh))
    => Collections = prev.collections

\* a second run on the same parser, on a root of two files, one of them
\* declaring an entity with a parent, fields and methods
SameParserRanTwice ==
    /\ pc = "done"
    /\ runs > 1
    /\ prev.unchanged
    /\ ~prev.fresh
    /\ Len(root.models_dir) > 1
    /\ \E E \in DOMAIN models :
           /\ models[E].inherit # <<>>
           /\ DOMAIN models[E].fields # {}
           /\ DOMAIN models[E].methods # {}

\* the indices of the edges of the graph that leave E
EdgesFrom(graph, E) == {i \in 1..Len(graph.edges) : graph.edges[i].from = E}

\* C10: generate_relationship_graph returns exactly one node per extracted
\* entity and none for a name that is only referenced; an entity without field
\* and method has a node with fields = 0 and methods = 0, and is the source of
\* exactly one edge per parent and of no other edge.
GraphNodesAndBareEntities ==
    result.op = "generate_relationship_graph" =>
        LET graph == result.value IN
        /\ Len(graph.nodes) = Cardinality(DOMAIN models)
        /\ {graph.nodes[i].id : i \in 1..Len(graph.nodes)} = DOMAIN models
        /\ \A E \in DOMAIN models :
               (DOMAIN models[E].fields = {} /\ DOMAIN models[E].methods = {}) =>
                   /\ \A i \in 1..Len(graph.nodes) :
                          graph.nodes[i].id = E =>
                              graph.nodes[i].fields = 0 /\ graph.nodes[i].methods = 0
                   /\ Cardinality(EdgesFrom(graph, E)) = Len(models[E].inherit)
                   /\ \A i \in EdgesFrom(graph, E) : graph.edges[i].type = "inherits"
                   /\ \A k \in 1..Len(models[E].inherit) :
                          \E i \in EdgesFrom(graph, E) :
                              graph.edges[i].to = models[E].inherit[k]

\* the graph of a module with an entity without field and method that has two
\* parents, one of them not extracted
BareEntityWithParentsDrawn ==
    /\ result.op = "generate_relationship_graph"
    /\ \E E \in DOMAIN models :
           /\ DOMAIN models[E].fields = {}
           /\ DOMAIN models[E].methods = {}
           /\ Len(models[E].inherit) > 1
           /\ \E k \in 1..Len(models[E].inherit) : models[E].inherit[k] \notin DOMAIN models

\* C5: the access row access_book,model_library_book,base.group_user,1,0,0,0
\* yields a SecurityRule keyed access_book whose model_id is the entity name
\* library.book, with perm_read True and perm_write, perm_create and
\* perm_unlink False.
AccessBookRowNamesLibraryBook ==
    (pc = "done" /\ root.security.exists /\ root.security.access.rows = <<RowAccessBook>>)
    => /\ W_access_book \in DOMAIN security_rules
       /\ security_rules[W_access_book].model_id = W_library_book
       /\ security_rules[W_access_book].perm_read
       /\ ~security_rules[W_access_book].perm_write
       /\ ~security_rules[W_access_book].perm_create
       /\ ~security_rules[W_access_book].perm_unlink

\* every extracted entity has a security rule whose model_id is its name
EveryEntityHasRule ==
    \A E \in DOMAIN models :
        \E r \in DOMAIN security_rules : security_rules[r].model_id = E

\* C6 as stated: whenever every extracted entity has a rule whose model_id is
\* its name, the empty entity set included, _get_security_coverage returns
\* coverage_percentage 100.0 and no models_missing_rules.
FullCoverageOfAnyModule ==
    (result.op = "_get_security_coverage" /\ EveryEntityHasRule)
    => /\ result.value.coverage_percentage = 10000
       /\ result.value.models_missing_rules = {}

\* C6 amended: whenever every extracted entity has a rule whose model_id is
\* its name, _get_security_coverage returns no models_missing_rules, and
\* coverage_percentage 100.0 when there is at least one entity, 0 when there
\* is none.
FullCoverageOfNonEmptyModule ==
    (result.op = "_get_security_coverage" /\ EveryEntityHasRule)
    => /\ result.value.models_missing_rules = {}
       /\ DOMAIN models # {} => result.value.coverage_percentage = 10000
       /\ DOMAIN models = {} => result.value.coverage_percentage = 0

\* the coverage of a module of two entities, one of them with two rules
TwoEntitiesCovered ==
    /\ result.op = "_get_security_coverage"
    /\ EveryEntityHasRule
    /\ Cardinality(DOMAIN models) > 1
    /\ \E r, q \in DOMAIN security_rules :
           /\ r # q
           /\ security_rules[r].model_id = security_rules[q].model_id
           /\ security_rules[r].model_id \in DOMAIN models

\* C7: export_module_data completes, whatever the number of entities, fields
\* and extracted methods, and the models section of the document it writes has
\* exactly the entity names as keys and under each exactly its field names,
\* each with its field type.
ExportCompletesAndRoundTrips ==
    result.op = "export_module_data" =>
        /\ result.value.raised = "none"
        /\ result.value.loads
        /\ DOMAIN result.value.document.models = DOMAIN models
        /\ \A E \in DOMAIN models :
               /\ DOMAIN result.value.document.models[E].fields = DOMAIN models[E].fields
               /\ \A F \in DOMAIN models[E].fields :
                      result.value.document.models[E].fields[F].type
                          = models[E].fields[F].field_type

\* the places below the nodes ns that add to the complexity: <<path, 1>> for
\* an if, while or for statement at path, <<path, k>> for the k-th operand,
\* from the second on, of an and/or expression at path
RECURSIVE BranchPoints(_, _)
BranchPoints(ns, path) ==
    UNION {(IF ns[i].node \in {"If", "While", "For"}
            THEN {<<path \o <<i>>, 1>>}
            ELSE IF ns[i].node = "BoolOp"
            THEN {<<path \o <<i>>, k>> : k \in 2..Len(ns[i].values)}
            ELSE {})
           \cup BranchPoints(ChildNodes(ns[i]), path \o <<i>>)
           : i \in 1..Len(ns)}

\* the function definitions of the model files of the root, each with the
\* name of the entity its class declares
DeclaredMethods ==
    UNION {UNION {{[entity |-> GetModelName(root.models_dir[f].classes[c]),
                    def |-> root.models_dir[f].classes[c].body[k]]
                   : k \in {j \in 1..Len(root.models_dir[f].classes[c].body) :
                                root.models_dir[f].classes[c].body[j].node = "FunctionDef"}}
                  : c \in 1..Len(root.models_dir[f].classes)}
           : f \in 1..Len(root.models_dir)}

FieldsNamed(record, name) ==
    SelectSeq(record.children, LAMBDA f : AttrGet(f, "name", PyNone) = name)

\* the entity reference of a rule record: the ref of its last model_id field
\* that has one, the prefix "model_" removed; None without such a field
RecordEntityRef(record) ==
    LET refs == SelectSeq(FieldsNamed(record, W_model_id),
                          LAMBDA f : Truthy(AttrGet(f, "ref", PyNone)))
    IN  IF refs = <<>> THEN PyNone
        ELSE StrRemove(refs[Len(refs)].attrib.ref, W_model_)

\* the text of the last domain_force field of a record, None without one
RecordDomain(record) ==
    LET ds == FieldsNamed(record, W_domain_force)
    IN  IF ds = <<>> THEN PyNone ELSE ds[Len(ds)].text

\* the records of the rule file of the root
RuleRecordsOfRoot == root.security.rule_files[1].elements

\* the k-th record of the rule file is an ir.rule record with an entity
\* reference, and no later such record has its id
IsLastRowLevelRule(k) ==
    LET records == RuleRecordsOfRoot IN
    /\ records[k].attrib.model = W_ir_rule
    /\ Truthy(RecordEntityRef(records[k]))
    /\ \A j \in (k + 1)..Len(records) :
           ~(/\ records[j].attrib.id = records[k].attrib.id
             /\ records[j].attrib.model = W_ir_rule
             /\ Truthy(RecordEntityRef(records[j])))

\* C11: an ir.rule record that has an entity reference and no groups field
\* yields a SecurityRule with an empty group list, the four permissions true
\* and the record's domain expression as domain_force.
RuleWithoutGroupsAppliesToAll ==
    pc = "done" =>
        \A k \in 1..Len(RuleRecordsOfRoot) :
            LET record == RuleRecordsOfRoot[k] IN
            (IsLastRowLevelRule(k) /\ FieldsNamed(record, W_groups) = <<>>) =>
                /\ record.attrib.id \in DOMAIN security_rules
                /\ LET rule == security_rules[record.attrib.id] IN
                   /\ rule.groups = <<>>
                   /\ rule.perm_read /\ rule.perm_write
                   /\ rule.perm_create /\ rule.perm_unlink
                   /\ rule.domain_force = RecordDomain(record)
                   /\ rule.model_id = RecordEntityRef(record)

\* a rule record without groups was read after one with groups
RuleWithoutGroupsRead ==
    /\ pc = "done"
    /\ Len(RuleRecordsOfRoot) > 1
    /\ FieldsNamed(RuleRecordsOfRoot[1], W_groups) # <<>>
    /\ IsLastRowLevelRule(1)
    /\ IsLastRowLevelRule(2)
    /\ FieldsNamed(RuleRecordsOfRoot[2], W_groups) = <<>>
    /\ RecordDomain(RuleRecordsOfRoot[2]) = W_domain_x

\* C16: the access rows are loaded first and the rule files second into one
\* rule set keyed by identifier: when a row-level rule and an access row share
\* an identifier, the rule set holds the row-level rule under it, all four
\* permissions true, with its domain filter.
RowLevelRuleOverridesAccessRow ==
    pc \in {"parse_menus", "analyze_dependencies", "done"} =>
        \A k \in 1..Len(RuleRecordsOfRoot) :
            LET record == RuleRecordsOfRoot[k] IN
            (/\ IsLastRowLevelRule(k)
             /\ \E i \in 1..Len(root.security.access.rows) :
                    RowGet(root.security.access.rows[i], "id", <<>>) = record.attrib.id) =>
                /\ record.attrib.id \in DOMAIN security_rules
                /\ LET rule == security_rules[record.attrib.id] IN
                   /\ rule.perm_read /\ rule.perm_write
                   /\ rule.perm_create /\ rule.perm_unlink
                   /\ rule.domain_force = RecordDomain(record)
                   /\ rule.model_id = RecordEntityRef(record)

\* an access row that grants read only and a row-level rule share an id, and
\* the rule set holds a rule under it
SharedIdentifierLoaded ==
    /\ pc = "parse_menus"
    /\ \E k \in 1..Len(RuleRecordsOfRoot) : \E i \in 1..Len(root.security.access.rows) :
           /\ IsLastRowLevelRule(k)
           /\ RowGet(root.security.access.rows[i], "id", <<>>) = RuleRecordsOfRoot[k].attrib.id
           /\ RowGet(root.security.access.rows[i], "perm_write", <<"0">>) = <<"0">>
           /\ RuleRecordsOfRoot[k].attrib.id \in DOMAIN security_rules

\* C20: a row or record without entity reference adds no SecurityRule: every
\* rule of the rule set has a non-empty model_id.
EveryRuleNamesAnEntity ==
    pc = "done" =>
        \A r \in DOMAIN security_rules : Truthy(security_rules[r].model_id)

\* the model files of the root that _parse_models reads
IsReadFile(file) == file.name # "__init__.py"

\* a model file of one class, which declares an entity under one name and is
\* processed without exception
DeclaresOneEntity(file) ==
    /\ IsReadFile(file)
    /\ file.syntax_ok
    /\ Len(file.classes) = 1
    /\ IsOdooModel(file.classes[1])
    /\ IsEntityName(GetModelName(file.classes[1]))
    /\ GetModelName(file.classes[1]) = ExtractModelInfo(file.classes[1]).name
    /\ ~ParseModelFileRaises(file, EmptyDict)

\* C12: when two model files processed one after the other each declare an
\* entity of the same name N, the record N has the fields declared in both
\* files and the methods extracted from both, and the description, order,
\* record name and parents of the declaration processed last.
SameEntityInTwoFilesIsMerged ==
    (/\ ParsedFresh
     /\ Len(root.models_dir) = 2
     /\ DeclaresOneEntity(root.models_dir[1])
     /\ DeclaresOneEntity(root.models_dir[2])
     /\ GetModelName(root.models_dir[1].classes[1])
            = GetModelName(root.models_dir[2].classes[1]))
    => LET c1 == root.models_dir[1].classes[1]
           c2 == root.models_dir[2].classes[1]
           d1 == ExtractMethods(c1, ExtractModelInfo(c1)).model
           d2 == ExtractMethods(c2, ExtractModelInfo(c2)).model
           N == d2.name
       IN  /\ N \in DOMAIN models
           /\ DOMAIN models[N].fields = DOMAIN d1.fields \cup DOMAIN d2.fields
           /\ DOMAIN models[N].methods = DOMAIN d1.methods \cup DOMAIN d2.methods
           /\ models[N].description = d2.description
           /\ models[N].order = d2.order
           /\ models[N].record_name = d2.record_name
           /\ models[N].inherit = d2.inherit

\* the name starts with one of the lifecycle-hook prefixes
HasHookPrefix(method_name) ==
    \/ StartsWith(method_name, W_compute_)
    \/ StartsWith(method_name, W_inverse_)
    \/ StartsWith(method_name, W_search_)

\* C13: a function declared in an entity's body becomes a Method of the entity
\* if its name does not start with "_" or starts with one of the prefixes
\* _compute_, _inverse_, _search_; it is excluded only if its name starts
\* with "_" and with none of these prefixes.  (Stated for the functions without
\* decorator of a module of one model file.)
HooksAndPublicMethodsAreExtracted ==
    (ParsedFresh /\ Len(root.models_dir) = 1) =>
        \A d \in DeclaredMethods :
            (d.entity \in DOMAIN models /\ d.def.decorator_list = <<>>) =>
                (d.def.name \in DOMAIN models[d.entity].methods
                 <=> (~StartsWith(d.def.name, <<"_">>) \/ HasHookPrefix(d.def.name)))

\* C14: when processing a model file raises an exception, a syntax failure or
\* an error during entity or method extraction, the entity collection after
\* the file is what it was before the file, and the next file is processed.
FailedFileContributesNothing ==
    [][(/\ pc = "parse_models"
        /\ idx' = idx + 1
        /\ IsReadFile(root.models_dir[idx + 1])
        /\ ParseModelFileRaises(root.models_dir[idx + 1], models))
       => (/\ models' = models
           /\ pc' \in {"parse_models", "parse_views"})]_vars

\* the field declarations of the model files of the root, each with the name
\* of the entity its class declares
DeclaredFields ==
    UNION {UNION {{[entity |-> GetModelName(root.models_dir[f].classes[c]),
                    decl |-> root.models_dir[f].classes[c].body[k]]
                   : k \in {j \in 1..Len(root.models_dir[f].classes[c].body) :
                                IsFieldDecl(root.models_dir[f].classes[c].body[j])}}
                  : c \in {j \in 1..Len(root.models_dir[f].classes) :
                               IsOdooModel(root.models_dir[f].classes[j])}}
           : f \in 1..Len(root.models_dir)}

\* the value an attribute of a Field has when its keyword is omitted
OmittedValue(arg) ==
    CASE arg = "store" -> PyTrue
      [] arg \in {"required", "readonly", "index", "tracking"} -> PyFalse
      [] OTHER -> PyNone

\* C18: a field declaration with a keyword whose value is no literal still
\* produces a Field, and the attribute of that keyword has the value it has
\* when the keyword is omitted: store true, required, readonly, index and
\* tracking false, string, default, compute, inverse and help unset.
NonLiteralKeywordIsAsOmitted ==
    (ParsedFresh /\ Len(root.models_dir) = 1) =>
        \A d \in DeclaredFields :
            d.entity \in DOMAIN models =>
                \A k \in 1..Len(d.decl.value.keywords) :
                    LET kw == d.decl.value.keywords[k] IN
                    (/\ ~IsLiteral(kw.value)
                     /\ kw.arg \in {"required", "string", "default", "compute", "inverse",
                                    "store", "readonly", "index", "tracking", "help"}) =>
                        /\ d.decl.targets[1].id \in DOMAIN models[d.entity].fields
                        /\ models[d.entity].fields[d.decl.targets[1].id][kw.arg]
                               = OmittedValue(kw.arg)

\* the assignments of a list of tuples to _sql_constraints in the model
\* classes of the root, each with the name of the entity its class declares
DeclaredConstraints ==
    UNION {UNION {{[entity |-> GetModelName(root.models_dir[f].classes[c]),
                    decl |-> root.models_dir[f].classes[c].body[k]]
                   : k \in {j \in 1..Len(root.models_dir[f].classes[c].body) :
                                LET item == root.models_dir[f].classes[c].body[j] IN
                                /\ item.node = "Assign"
                                /\ SingleNameTarget(item)
                                /\ item.targets[1].id = W_sql_constraints
                                /\ item.value.node = "ListOfTuples"}}
                  : c \in {j \in 1..Len(root.models_dir[f].classes) :
                               IsOdooModel(root.models_dir[f].classes[j])}}
           : f \in 1..Len(root.models_dir)}

\* C19: for every recognized entity declaration whose body assigns
\* _sql_constraints a literal list of (name, definition, message) tuples, the
\* constraints of the extracted entity are the names of those tuples, in order.
ConstraintNamesAreExtracted ==
    (ParsedFresh /\ Len(root.models_dir) = 1) =>
        \A d \in DeclaredConstraints :
            d.entity \in DOMAIN models =>
                models[d.entity].constraints
                    = [k \in 1..Len(d.decl.value.tuples) |-> d.decl.value.tuples[k][1]]

\* C15: for every existing module root, parse_module runs its six phases to
\* completion without raising, whatever literal is given for _name, _inherit
\* or the first argument of a relational field, whatever the markup and the
\* rows, and whichever of manifest, models/, views/ and security/ are absent;
\* the collections of absent parts stay empty.
ParseModuleNeverRaises ==
    /\ pc # "raised"
    /\ (pc = "done" /\ ParsedFresh) =>
           /\ root.models_dir = <<>> => models = EmptyDict
           /\ root.views_dir = <<>> => views = EmptyDict /\ menu_items = EmptyDict
           /\ ~root.security.exists => security_rules = EmptyDict
           /\ root.manifest = "absent" => manifest = "empty"

\* the record elements of the view files that are read
ViewRecordsOfRoot ==
    UNION {{FindAllIn(root.views_dir[i].elements, "record")[k] :
              k \in 1..Len(FindAllIn(root.views_dir[i].elements, "record"))}
           : i \in {j \in 1..Len(root.views_dir) : root.views_dir[j].wellformed}}

\* the field elements of a record that carry the name
ViewFieldsNamed(record, name) ==
    SelectSeq(FindAll(record, "field"), LAMBDA f : AttrGet(f, "name", PyNone) = name)

\* the record names the view model and has an identifier
IsViewRecord(record, id) ==
    /\ AttrGet(record, "model", PyNone) = W_ir_ui_view
    /\ AttrGet(record, "id", PyNone) = id
    /\ id # PyNone /\ id # <<>>

\* the record has a field of the name with the text, which is not empty
HasTextField(record, name, text) ==
    /\ text # PyNone /\ text # <<>>
    /\ \E k \in 1..Len(ViewFieldsNamed(record, name)) :
           ViewFieldsNamed(record, name)[k].text = text

\* the priority fields of a record whose text is an integer
IntegerPriorities(record) ==
    SelectSeq(ViewFieldsNamed(record, W_priority), LAMBDA f : IntParses(f.text))

\* the priority of a view made of the record: that of its last priority field
\* with an integer value, 16 without one
PriorityGiven(record) ==
    IF IntegerPriorities(record) = <<>> THEN 16
    ELSE IntOf(IntegerPriorities(record)[Len(IntegerPriorities(record))].text)

\* an arch field with something in it: text or elements
HasNonEmptyArch(record) ==
    \E k \in 1..Len(ViewFieldsNamed(record, W_arch)) :
        \/ ViewFieldsNamed(record, W_arch)[k].children # <<>>
        \/ Truthy(ViewFieldsNamed(record, W_arch)[k].text)

\* C17 as stated: every committed view comes of a record element whose model
\* attribute is ir.ui.view, with a non-empty id attribute, whose model, type
\* and arch fields are all present and non-empty; its priority is 16 unless
\* a priority field with an integer value is given.
ViewCommittedOnlyIfAllNonEmpty ==
    (pc = "done" /\ ParsedFresh) =>
        \A id \in DOMAIN views :
            \E record \in ViewRecordsOfRoot :
                /\ IsViewRecord(record, id)
                /\ HasTextField(record, W_model, views[id].model)
                /\ HasTextField(record, W_type, views[id].type)
                /\ HasNonEmptyArch(record)
                /\ views[id].priority = PriorityGiven(record)

\* C17, amended: every committed view comes of a record element whose model
\* attribute is ir.ui.view, with a non-empty id attribute, whose model and
\* type fields are present with non-empty text and whose arch field is
\* present, empty or not; a record lacking any of these adds nothing to the
\* view collection, and the priority of a committed view is 16 unless a
\* priority field with an integer value is given.
ViewCommittedOnlyIfComplete ==
    (pc = "done" /\ ParsedFresh) =>
        \A id \in DOMAIN views :
            \E record \in ViewRecordsOfRoot :
                /\ IsViewRecord(record, id)
                /\ HasTextField(record, W_model, views[id].model)
                /\ HasTextField(record, W_type, views[id].type)
                /\ ViewFieldsNamed(record, W_arch) # <<>>
                /\ views[id].priority = PriorityGiven(record)

\* a view file with a record whose arch field is empty and a record without
\* type field has been read: the first is committed with priority 16, the
\* second is not
EmptyArchCommittedPartialDropped ==
    /\ pc = "done" /\ ParsedFresh
    /\ W_view_b \in DOMAIN views
    /\ views[W_view_b].priority = 16
    /\ \E record \in ViewRecordsOfRoot : AttrGet(record, "id", PyNone) = W_view_c
    /\ W_view_c \notin DOMAIN views

\* the rows of the access file of the root
AccessRowsOfRoot ==
    IF root.security.exists /\ root.security.access.exists
    THEN root.security.access.rows ELSE <<>>

\* row i is the last row of the access file with its id
IsLastAccessRow(i) ==
    \A j \in (i + 1)..Len(AccessRowsOfRoot) :
        RowGet(AccessRowsOfRoot[j], "id", <<>>) # RowGet(AccessRowsOfRoot[i], "id", <<>>)

\* no record of the rule files carries the id
NoRuleRecordHasId(id) ==
    \A f \in 1..Len(root.security.rule_files) :
        \A k \in 1..Len(FindAllIn(root.security.rule_files[f].elements, "record")) :
            AttrGet(FindAllIn(root.security.rule_files[f].elements, "record")[k],
                    "id", <<>>) # id

\* the SecurityRule of row i is the one stored under the id of the row
AccessRowStored(i) ==
    /\ IsLastAccessRow(i)
    /\ NoRuleRecordHasId(RowGet(AccessRowsOfRoot[i], "id", <<>>))

\* C21: the rule of a tabular access row has the one-element group list of
\* the row's group reference when that reference is non-empty, and the empty
\* group list when the reference is empty or absent.
AccessRowGroupsAreRefOrEmpty ==
    (pc = "done" /\ ParsedFresh) =>
        \A i \in 1..Len(AccessRowsOfRoot) :
            AccessRowStored(i) =>
                LET row == AccessRowsOfRoot[i]
                    rule == security_rules[RowGet(row, "id", <<>>)]
                IN  IF RowGet(row, "group_id:id", <<>>) # <<>>
                    THEN rule.groups = <<RowGet(row, "group_id:id", <<>>)>>
                    ELSE rule.groups = <<>>

\* the reference without its leading "model_", unchanged when it does not
\* start with it
WithoutLeadingPrefix(ref) ==
    IF StartsWith(ref, W_model_) THEN SubSeq(ref, Len(W_model_) + 1, Len(ref)) ELSE ref

\* C22: the target entity of a rule is the entity reference with only its
\* leading "model_" removed; later occurrences of "model_" are kept, and a
\* reference that does not start with the prefix is unchanged.
OnlyLeadingPrefixIsRemoved ==
    (pc = "done" /\ ParsedFresh) =>
        \A i \in 1..Len(AccessRowsOfRoot) :
            AccessRowStored(i) =>
                security_rules[RowGet(AccessRowsOfRoot[i], "id", <<>>)].model_id
                    = WithoutLeadingPrefix(RowGet(AccessRowsOfRoot[i], "model_id:id", <<>>))

\* the (field name, related entity) pairs of the relational fields of E
RelationalPairs(E) ==
    {<<F, models[E].fields[F].related_model>> :
        F \in {G \in DOMAIN models[E].fields :
                 /\ models[E].fields[G].related_model # PyNone
                 /\ models[E].fields[G].related_model # <<>>}}

\* the dependency paths of the compute methods of E: records of the method
\* name and the segments of the path
ComputePaths(E) ==
    UNION {{[method |-> M, segments |-> Split(models[E].methods[M].api_depends[k], ".")]
              : k \in 1..Len(models[E].methods[M].api_depends)}
           : M \in {N \in DOMAIN models[E].methods : models[E].methods[N].is_compute}}

\* the pairs the claim gives to the paths of E: the method name with the
\* related entity of the first segment, for the paths of more than one
\* segment whose first segment is a relational field of E
FirstSegmentPairs(E) ==
    {<<p.method, models[E].fields[p.segments[1]].related_model>> :
        p \in {q \in ComputePaths(E) :
                 /\ Len(q.segments) > 1
                 /\ \E pair \in RelationalPairs(E) : pair[1] = q.segments[1]}}

\* C23: the compute methods of E add to field_dependencies[E] the pair
\* (method name, R) for each dependency path of more than one segment whose
\* first segment is a relational field of E with related entity R, and
\* nothing else: no pair for a single-segment path, for a path whose first
\* segment does not resolve, or for a later segment; and they add nothing to
\* model_dependencies[E].
ComputePathsAddFirstSegmentOnly ==
    (pc = "done" /\ ParsedFresh) =>
        \A E \in DOMAIN models :
            /\ field_dependencies[E] = RelationalPairs(E) \cup FirstSegmentPairs(E)
            /\ model_dependencies[E] =
                   Elems(models[E].inherit) \cup {pair[2] : pair \in RelationalPairs(E)}

\* "a" has been analyzed with a compute method whose path f.f.g resolves in
\* its first segment to "b" and in its second, a field of "b", to "x": the
\* pair of "b" is recorded, the pair of "x" is not
DeepPathAnalyzed ==
    /\ pc = "done" /\ ParsedFresh
    /\ N_a \in DOMAIN models /\ N_b \in DOMAIN models
    /\ M_total \in DOMAIN models[N_a].methods
    /\ \E p \in ComputePaths(N_a) : p.method = M_total /\ p.segments = <<F_f, F_f, F_g>>
    /\ models[N_b].fields[F_f].related_model = N_x
    /\ <<M_total, N_b>> \in field_dependencies[N_a]
    /\ <<M_total, N_x>> \notin field_dependencies[N_a]

\* the place of a step in parse_module
PhaseRank(p) ==
    CASE p = "parse_manifest" -> 1
      [] p = "parse_models" -> 2
      [] p = "parse_views" -> 3
      [] p = "parse_security" -> 4
      [] p = "parse_menus" -> 5
      [] p = "analyze_dependencies" -> 6
      [] OTHER -> 7

\* C24: in every run of parse_module the dependency analysis runs once, after
\* the manifest, model, view, security and menu steps have finished in that
\* order, and it changes model_dependencies and field_dependencies only: the
\* entity, view, security-rule and menu collections are the same after it.
AnalysisRunsOnceAfterExtraction ==
    [][/\ pc' # pc =>
           \/ PhaseRank(pc') = PhaseRank(pc) + 1
           \/ pc = "parse_manifest" /\ pc' = "parse_views" /\ root.models_dir = <<>>
           \/ pc = "done" /\ pc' = "parse_manifest"
       /\ pc = "analyze_dependencies" =>
           /\ pc' \in {"done", "raised"}
           /\ models' = models /\ views' = views
           /\ security_rules' = security_rules /\ menu_items' = menu_items
       /\ (model_dependencies' # model_dependencies
              \/ field_dependencies' # field_dependencies) =>
           \/ pc = "analyze_dependencies"
           \/ pc = "done" /\ pc' = "parse_manifest"]_vars

\* the analysis has run at the end of a first run that extracted entities,
\* views, security rules and menu items
AnalysisFollowedEveryExtraction ==
    /\ pc = "done" /\ runs = 1
    /\ DOMAIN views # {} /\ DOMAIN security_rules # {} /\ DOMAIN menu_items # {}
    /\ \E E \in DOMAIN models : model_dependencies[E] # {} /\ field_dependencies[E] # {}

\* C25: every output file the display layer has written (the tree page, the
\* exported document) has been read back and deleted when the step that
\* wrote it has ended, whether the step ended normally or by an error between
\* the writing and the clean-up: no such file exists between two steps.
NoOutputFileIsLeft == disk = {}

\* C26: the inheritance-chain enumeration terminates and returns for every
\* extracted entity set, those whose parents form a cycle among the extracted
\* entities included (an entity that lists itself, or A inheriting B while B
\* inherits A).
ChainEnumerationAlwaysReturns ==
    result.op = "_get_inheritance_chains" => result.value.raised = "none"

\* the extracted entities reached from those of S by following parents at
\* most n times, at least once
RECURSIVE ExtractedAncestors(_, _)
ExtractedAncestors(S, n) ==
    IF n = 0 THEN {}
    ELSE LET up == UNION {Elems(models[E].inherit) \cap DOMAIN models : E \in S}
         IN  up \cup ExtractedAncestors(up, n - 1)

\* no extracted entity is among its own ancestors
ParentsAreAcyclic ==
    \A E \in DOMAIN models : E \notin ExtractedAncestors({E}, Cardinality(DOMAIN models))

\* C28: for every acyclic extracted entity set, the list the inheritance-chain
\* enumeration returns holds no chain twice: any two entries of the list are
\* different sequences of entity names.
NoChainIsListedTwice ==
    (result.op = "_get_inheritance_chains" /\ ParentsAreAcyclic) =>
        /\ result.value.raised = "none"
        /\ \A i, j \in 1..Len(result.value.chains) :
               i # j => result.value.chains[i] # result.value.chains[j]

\* the record elements of the view file of a root with one view file, in
\* document order
ViewRecordList ==
    IF Len(root.views_dir) = 1 /\ root.views_dir[1].wellformed
    THEN FindAllIn(root.views_dir[1].elements, "record") ELSE <<>>

\* the text of the last field of the name among the record's own fields, None
\* without such a field
OwnFieldText(record, name) ==
    IF FieldsNamed(record, name) = <<>> THEN PyNone
    ELSE FieldsNamed(record, name)[Len(FieldsNamed(record, name))].text

\* the priority the record's own priority fields give
OwnPriority(record) ==
    LET given == SelectSeq(FieldsNamed(record, W_priority), LAMBDA f : IntParses(f.text))
    IN  IF given = <<>> THEN 16 ELSE IntOf(given[Len(given)].text)

\* the record is a complete view by its own fields
CompleteByOwnFields(record) ==
    /\ AttrGet(record, "model", PyNone) = W_ir_ui_view
    /\ Truthy(AttrGet(record, "id", PyNone))
    /\ Truthy(OwnFieldText(record, W_model))
    /\ Truthy(OwnFieldText(record, W_type))
    /\ FieldsNamed(record, W_arch) # <<>>

\* C27: the target entity, kind and priority of a view are those of the
\* record's own model, type and priority fields; the field elements nested in
\* the arch body, whatever their names, change none of them and do not make a
\* view that is complete by its own fields be dropped.
NestedFieldsOnlyGiveFieldNames ==
    (pc = "done" /\ ParsedFresh) =>
        \A k \in 1..Len(ViewRecordList) :
            LET record == ViewRecordList[k]
                id == AttrGet(record, "id", PyNone)
            IN  (/\ CompleteByOwnFields(record)
                 /\ \A j \in 1..Len(ViewRecordList) :
                        j # k => AttrGet(ViewRecordList[j], "id", PyNone) # id)
                => /\ id \in DOMAIN views
                   /\ views[id].model = OwnFieldText(record, W_model)
                   /\ views[id].type = OwnFieldText(record, W_type)
                   /\ views[id].priority = OwnPriority(record)

\* C29: the relationship graph and the dependency maps agree: for every
\* extracted entity E the targets of the edges with source E are exactly
\* model_dependencies[E], and the (field name, target) pairs of its edges
\* other than the inherits edges are exactly the pairs of
\* field_dependencies[E] that come of relational fields.
GraphAgreesWithDependencies ==
    result.op = "generate_relationship_graph" =>
        LET graph == result.value IN
        \A E \in DOMAIN models :
            /\ {graph.edges[i].to : i \in EdgesFrom(graph, E)} = model_dependencies[E]
            /\ {<<graph.edges[i].field, graph.edges[i].to>> :
                   i \in {j \in EdgesFrom(graph, E) : graph.edges[j].type # "inherits"}}
               = {p \in field_dependencies[E] :
                      /\ p[1] \in DOMAIN models[E].fields
                      /\ models[E].fields[p[1]].related_model = p[2]}

\* the graph of a module with an entity that has a parent, a relational
\* field, a field that is not relational and a compute method with a pair of
\* its own in field_dependencies
GraphOfParentsFieldsAndComputeDrawn ==
    /\ result.op = "generate_relationship_graph"
    /\ \E E \in DOMAIN models :
           /\ models[E].inherit # <<>>
           /\ \E F \in DOMAIN models[E].fields : models[E].fields[F].related_model = PyNone
           /\ \E i \in EdgesFrom(result.value, E) : result.value.edges[i].type # "inherits"
           /\ \E p \in field_dependencies[E] : p[1] \in DOMAIN models[E].methods

\* C30: after the dependency analysis, for every extracted entity E and
\* every pair (name, T) of field_dependencies[E], whether a relational field
\* or the dependency path of a compute method produced it, T is a member of
\* model_dependencies[E].
FieldDependencyTargetsAreDependencies ==
    pc = "done" =>
        \A E \in DOMAIN models :
            \A p \in field_dependencies[E] : p[2] \in model_dependencies[E]

\* an analyzed entity with a pair of a relational field and a pair of a
\* compute method in field_dependencies
FieldAndComputePairsAnalyzed ==
    /\ pc = "done"
    /\ \E E \in DOMAIN models :
           /\ \E p \in field_dependencies[E] : p[1] \in DOMAIN models[E].fields
           /\ \E p \in field_dependencies[E] :
                  p[1] \in DOMAIN models[E].methods /\ p[1] \notin DOMAIN models[E].fields

====
